---- MODULE Spec2Model ----
(***************************************************************************)
(* The accessory lifecycle reconciler of asantiya: the dependency resolver *)
(* (utils/docker.py) and the DockerManager operations over accessories     *)
(* (docker_manager.py), run against a container runtime whose calls may    *)
(* fail.  Every operation is one action: the program is single threaded,   *)
(* and the order of the runtime calls inside one operation is kept in the  *)
(* operation's log.                                                        *)
(***************************************************************************)
EXTENDS Integers, Sequences, FiniteSets, TLC

\* ------------------------------------------------------------------ bounds

\* accessories of a configuration given to order() alone
MaxNodes == 3
\* accessories of a configuration the lifecycle operations run on
NumAcc == 2
\* names in one stop / restart request
MaxReq == 2
\* invocations running against the same runtime at the same time
NumCallers == 2
\* calls of ensure_network one behaviour holds
MaxNetCalls == 2
\* the longest list of images pull_images is called with
MaxImages == 3

\* ----------------------------------------------------------------- helpers

Range(s) == {s[i] : i \in 1..Len(s)}

\* the accessory keys a configuration may use, in dict (insertion) order
AllKeys == <<"db", "cache", "app", "web", "queue", "mail">>

KeysOf(n) == SubSeq(AllKeys, 1, n)

\* Python's None
None == "<None>"

\* ------------------------------------------------------- dependency resolver

\* a release step without the emptiness test: a dependent is queued as soon as
\* one of its dependencies is taken
RECURSIVE RemoveFromAllEager(_, _, _, _, _)
RemoveFromAllEager(keys, i, node, graph, no_deps) ==
    IF i > Len(keys)
    THEN [graph |-> graph, no_deps |-> no_deps]
    ELSE LET other == keys[i] IN
         IF node \in graph[other]
         THEN RemoveFromAllEager(keys, i + 1, node,
                                 [graph EXCEPT ![other] = graph[other] \ {node}],
                                 Append(no_deps, other))
         ELSE RemoveFromAllEager(keys, i + 1, node, graph, no_deps)

\* the for loop of sort_by_dependencies: node is removed from the dependency
\* set of every entry of graph, in dict order; an entry whose set becomes
\* empty is appended to no_deps
RECURSIVE RemoveFromAll(_, _, _, _, _)
RemoveFromAll(keys, i, node, graph, no_deps) ==
    IF i > Len(keys)
    THEN [graph |-> graph, no_deps |-> no_deps]
    ELSE LET other == keys[i] IN
         IF node \in graph[other]
         THEN LET deps == graph[other] \ {node} IN
              RemoveFromAll(keys, i + 1, node,
                            [graph EXCEPT ![other] = deps],
                            IF deps = {} THEN Append(no_deps, other) ELSE no_deps)
         ELSE RemoveFromAll(keys, i + 1, node, graph, no_deps)

\* the while loop of sort_by_dependencies: pop the last ready node, append it
\* to ordered, release its dependents
RECURSIVE KahnLoop(_, _, _, _)
KahnLoop(keys, graph, no_deps, ordered) ==
    IF no_deps = <<>>
    THEN ordered
    ELSE LET node == no_deps[Len(no_deps)]
             rest == SubSeq(no_deps, 1, Len(no_deps) - 1)
             r    == RemoveFromAll(keys, 1, node, graph, rest)
         IN  KahnLoop(keys, r.graph, r.no_deps, Append(ordered, node))

\* a length check that lets a short ordering through
OrderResultUnchecked(keys, ordered) ==
    [raised |-> FALSE, exc |-> None, msg |-> <<>>, value |-> ordered]

\* the length check that ends sort_by_dependencies
OrderResult(keys, ordered) ==
    IF Len(ordered) # Len(keys)
    THEN [raised |-> TRUE, exc |-> "ValueError",
          msg |-> <<"Circular dependency detected">>, value |-> <<>>]
    ELSE [raised |-> FALSE, exc |-> None, msg |-> <<>>, value |-> ordered]

\* a pop that takes any of the ready nodes
PopAny(no_deps) ==
    {[node |-> no_deps[i],
      rest |-> SubSeq(no_deps, 1, i - 1) \o SubSeq(no_deps, i + 1, Len(no_deps))] :
        i \in 1..Len(no_deps)}

\* no_deps.pop() on a list: its last element, and the list without it
Pop(no_deps) ==
    {[node |-> no_deps[Len(no_deps)],
      rest |-> SubSeq(no_deps, 1, Len(no_deps) - 1)]}

\* the orderings a run of the while loop may come to, whatever pop() may give
RECURSIVE KahnRuns(_, _, _, _)
KahnRuns(keys, graph, no_deps, ordered) ==
    IF no_deps = <<>>
    THEN {ordered}
    ELSE UNION { LET r == RemoveFromAll(keys, 1, p.node, graph, p.rest)
                 IN  KahnRuns(keys, r.graph, r.no_deps, Append(ordered, p.node))
                 : p \in Pop(no_deps) }

\* the results a run of sort_by_dependencies(configs) may come to: the dict
\* is gone through in insertion order, the sets of the graph are only asked
\* for membership, and the ready nodes are a list
sort_runs(configs) ==
    LET keys    == configs.keys
        graph   == [k \in Range(keys) |-> configs.depends_on[k]]
        no_deps == SelectSeq(keys, LAMBDA k : graph[k] = {})
    IN  {OrderResult(keys, ordered) : ordered \in KahnRuns(keys, graph, no_deps, <<>>)}

\* a graph built of the dependency lists themselves
GraphSetsShared(configs) ==
    [deps |-> [k \in Range(configs.keys) |-> configs.depends_on[k]],
     shared |-> TRUE]

\* graph = {name: set(cfg.depends_on)}: set() makes a new set of each list,
\* so no object of the graph is an object of the configuration
GraphSets(configs) ==
    [deps |-> [k \in Range(configs.keys) |-> configs.depends_on[k]],
     shared |-> FALSE]

\* the graph as the while loop of sort_by_dependencies leaves it
RECURSIVE KahnGraph(_, _, _)
KahnGraph(keys, graph, no_deps) ==
    IF no_deps = <<>>
    THEN graph
    ELSE LET node == no_deps[Len(no_deps)]
             rest == SubSeq(no_deps, 1, Len(no_deps) - 1)
             r    == RemoveFromAll(keys, 1, node, graph, rest)
         IN  KahnGraph(keys, r.graph, r.no_deps)

\* configs once sort_by_dependencies(configs) ended: deps.remove(node) is all
\* the function changes, and it shows in the configuration only where the
\* graph shares its sets with it
ConfigsAfterSort(configs) ==
    LET g == GraphSets(configs)
        no_deps == SelectSeq(configs.keys, LAMBDA k : g.deps[k] = {})
    IN  IF g.shared
        THEN [configs EXCEPT !.depends_on = KahnGraph(configs.keys, g.deps, no_deps)]
        ELSE configs

\* sort_by_dependencies(configs): configs is [keys, depends_on, service]
sort_by_dependencies(configs) ==
    LET keys    == configs.keys
        graph   == [k \in Range(keys) |-> configs.depends_on[k]]
        no_deps == SelectSeq(keys, LAMBDA k : graph[k] = {})
    IN  OrderResult(keys, KahnLoop(keys, graph, no_deps, <<>>))

\* ------------------------------------------------------------ configuration

\* AccessoryConfig.service when it is set in the configuration
ExplicitService(key) == key \o "-svc"

\* the network every accessory of the modelled configurations joins
AccNetwork == "asantiya-network"

\* a default name built from the application's service name
get_service_name_of_app(cfg, key) ==
    IF cfg.service[key] # None THEN cfg.service[key] ELSE cfg.app \o "-" \o key

\* _get_service_name, and the first line of create_accessory: the configured
\* service name, or asantiya-<key> when none is set
get_service_name(cfg, key) ==
    IF cfg.service[key] # None THEN cfg.service[key] ELSE "asantiya-" \o key

\* a container name no configuration resolves to
Ghost == "ghost"

\* AppConfig.service and AppConfig.image, at their defaults
AppService == "asantiya"

AppImage == "asantiya-service"

\* the container names of the runtime
CNames ==
    {ExplicitService(k) : k \in Range(KeysOf(NumAcc))}
        \cup {"asantiya-" \o k : k \in Range(KeysOf(NumAcc))}
        \cup {Ghost, AppService}

\* the container names the configuration resolves to
ResolvedNames(cfg) == {get_service_name(cfg, k) : k \in Range(cfg.keys)}

\* ------------------------------------------------------------------ runtime

\* one entry of an operation's log: a call, what it was about, how it ended
Ev(call, name, res) == [call |-> call, name |-> name, res |-> res]

\* e.explanation of a docker APIError, str(e) of any other exception
Explanation == "<explanation>"
ErrorText == "<error>"

\* how an operation ends: the runtime it leaves, whether it raised, the
\* exception and its message (the pieces of the f-string), the value returned
Outcome(rt, raised, exc, msg, value, log) ==
    [rt |-> rt, raised |-> raised, exc |-> exc, msg |-> msg, value |-> value,
     log |-> log]

Returned(rt, value, log) == Outcome(rt, FALSE, None, <<>>, value, log)

Raised(rt, exc, msg, log) == Outcome(rt, TRUE, exc, msg, None, log)

\* container.status == "running"
IsRunning(rt, name) == rt.containers[name] = "running"

Exists(rt, name) == rt.containers[name] # "absent"

SetStatus(rt, name, status) ==
    [rt EXCEPT !.containers = [@ EXCEPT ![name] = status]]

\* ----------------------------------------------------------- ensure_network

\* ensure_network(client, network_name): list the networks, create the
\* network when no listed one has the name; an APIError of either call
\* becomes RuntimeError("Network creation failed: ..."), any other exception
\* passes through
ensure_network(rt, network_name, log) ==
    LET listed == Append(log, Ev("networks.list", network_name, "ok"))
        failed(call) ==
            { Raised(rt, "RuntimeError",
                     <<"Network creation failed: ", Explanation>>,
                     Append(IF call = "networks.create" THEN listed ELSE log,
                            Ev(call, network_name, "APIError"))),
              Raised(rt, "Exception", <<ErrorText>>,
                     Append(IF call = "networks.create" THEN listed ELSE log,
                            Ev(call, network_name, "Exception"))) }
    IN  failed("networks.list")
        \cup (IF network_name \in rt.networks
              THEN {Returned(rt, None, listed)}
              ELSE failed("networks.create")
                   \cup {Returned([rt EXCEPT !.networks = @ \cup {network_name}],
                                  None,
                                  Append(listed,
                                         Ev("networks.create", network_name, "ok")))})

\* ------------------------------------------------------------- pull_images

\* a pull_images that pulls an image it found as well
pull_images_always(rt, img, log) ==
    LET absent == Append(log, Ev("images.get", img, "ImageNotFound"))
        found  == Append(log, Ev("images.get", img, "ok"))
    IN  { Returned(rt, None, Append(found, Ev("api.pull", img, "ok"))),
          Raised(rt, "APIError", <<Explanation>>,
                 Append(log, Ev("images.get", img, "APIError"))),
          Returned(rt, None, Append(absent, Ev("api.pull", img, "ok"))),
          Raised(rt, "APIError", <<Explanation>>,
                 Append(absent, Ev("api.pull", img, "APIError"))) }

\* pull_images([img]): inspect the image locally and pull it only when the
\* inspect raises ImageNotFound.  The image store is the runtime's: whether
\* the image is there is the runtime's answer.  Nothing is caught but
\* ImageNotFound: an APIError or any other exception of the inspect or of the
\* pull leaves pull_images as it is
pull_images(rt, img, log) ==
    LET absent == Append(log, Ev("images.get", img, "ImageNotFound"))
    IN  { Returned(rt, None, Append(log, Ev("images.get", img, "ok"))),
          Raised(rt, "APIError", <<Explanation>>,
                 Append(log, Ev("images.get", img, "APIError"))),
          Raised(rt, "Exception", <<ErrorText>>,
                 Append(log, Ev("images.get", img, "Exception"))),
          Returned(rt, None, Append(absent, Ev("api.pull", img, "ok"))),
          Raised(rt, "APIError", <<Explanation>>,
                 Append(absent, Ev("api.pull", img, "APIError"))),
          Raised(rt, "Exception", <<ErrorText>>,
                 Append(absent, Ev("api.pull", img, "Exception"))) }

\* img.strip() is empty: a name of nothing but blanks
Blank(img) == img \in {"", " "}

\* the for loop of pull_images over the list, from image i on: the first
\* exception ends it
RECURSIVE PullEach(_, _, _, _)
PullEach(rt, images, i, log) ==
    IF i > Len(images)
    THEN {Returned(rt, None, log)}
    ELSE UNION { IF o.raised THEN {o} ELSE PullEach(o.rt, images, i + 1, o.log)
                 : o \in pull_images(rt, images[i], log) }

\* pull_images(images) on a list of names: an empty list or a blank name is
\* a ValueError before any image is looked at
pull_images_list(rt, images) ==
    IF images = <<>> \/ \E i \in 1..Len(images) : Blank(images[i])
    THEN {Raised(rt, "ValueError",
                 <<"You must provide a non-empty list of valid Docker image names.">>,
                 <<>>)}
    ELSE PullEach(rt, images, 1, <<>>)

\* --------------------------------------------------------- create_accessory

\* AccessoryConfig.image of the accessory under a key
Image(key) == key \o ":latest"

\* a runtime call that raises: docker's APIError, or any other exception
CallFails(rt, call, name, log) ==
    { Raised(rt, "APIError", <<Explanation>>, Append(log, Ev(call, name, "APIError"))),
      Raised(rt, "Exception", <<ErrorText>>, Append(log, Ev(call, name, "Exception"))) }

\* a runtime whose create is not atomic per name: a taken name is not refused
RunContainerUnchecked(rt, service_name, log) ==
    CallFails(rt, "containers.run", service_name, log)
    \cup {Returned(SetStatus(rt, service_name, "running"), service_name,
                    Append(log, Ev("containers.run", service_name, "ok")))}

\* containers.run(..., name=service_name, detach=True): create and start.  The
\* runtime refuses a name that is taken; a run that fails after the create
\* leaves the container behind, created and not running
RunContainer(rt, service_name, log) ==
    IF Exists(rt, service_name)
    THEN {Raised(rt, "APIError", <<Explanation>>,
                 Append(log, Ev("containers.run", service_name, "APIError")))}
    ELSE CallFails(rt, "containers.run", service_name, log)
         \cup { Returned(SetStatus(rt, service_name, "running"), service_name,
                         Append(log, Ev("containers.run", service_name, "ok"))),
                Raised(SetStatus(rt, service_name, "created"), "APIError",
                       <<Explanation>>,
                       Append(log, Ev("containers.run", service_name,
                                      "APIError after create"))) }

\* a creation that runs the container whatever became of the image
CreateNewDespiteImage(key, service_name, rt, log) ==
    UNION { IF n.raised THEN {n}
            ELSE UNION { RunContainer(p.rt, service_name, p.log)
                         : p \in pull_images(n.rt, Image(key), n.log) }
            : n \in ensure_network(rt, AccNetwork, log) }

\* create_accessory after NotFound: network, image, then the container
CreateNew(key, service_name, rt, log) ==
    UNION { IF n.raised THEN {n}
            ELSE UNION { IF p.raised THEN {p}
                         ELSE RunContainer(p.rt, service_name, p.log)
                         : p \in pull_images(n.rt, Image(key), n.log) }
            : n \in ensure_network(rt, AccNetwork, log) }

\* a lookup that starts the container it found, running or not
StartExistingAnyway(service_name, rt, log) ==
    CallFails(rt, "start", service_name, log)
    \cup {Returned(SetStatus(rt, service_name, "running"), service_name,
                   Append(log, Ev("start", service_name, "ok")))}

\* create_accessory on a container that exists: returned as it is when it
\* runs, started in place otherwise.  The runtime may answer the start with
\* NotFound (its 404: a network of the container is gone), and the container
\* stays as it is
StartExisting(service_name, rt, log) ==
    IF IsRunning(rt, service_name)
    THEN {Returned(rt, service_name, log)}
    ELSE CallFails(rt, "start", service_name, log)
         \cup {Returned(SetStatus(rt, service_name, "running"), service_name,
                        Append(log, Ev("start", service_name, "ok"))),
               Raised(rt, "NotFound", <<Explanation>>,
                      Append(log, Ev("start", service_name, "NotFound")))}

\* the except clause of create_accessory: an APIError becomes
\* RuntimeError("Failed to create <service_name>: <explanation>"), everything
\* else leaves as it is
EndCreate(key, service_name, o) ==
    IF o.raised
    THEN IF o.exc = "APIError"
         THEN Raised(o.rt, "RuntimeError",
                     <<"Failed to create ", service_name, ": ", Explanation>>,
                     Append(o.log, Ev("create_accessory", key, "raise")))
         ELSE [o EXCEPT !.log = Append(@, Ev("create_accessory", key, "raise"))]
    ELSE [o EXCEPT !.log = Append(@, Ev("create_accessory", key, "return"))]

\* a create_accessory that does not look for an existing container
create_accessory_no_lookup(cfg, key, rt) ==
    LET service_name == get_service_name(cfg, key)
    IN  { EndCreate(key, service_name, o) :
            o \in CreateNew(key, service_name, rt,
                            <<Ev("create_accessory", key, "enter")>>) }

\* the inner try of create_accessory on a container that exists: its
\* except NotFound encloses the start as well as the get, so a NotFound of
\* the start goes on to the network, the image and containers.run
LookupExisting(key, service_name, rt, log) ==
    UNION { IF o.raised /\ o.exc = "NotFound"
            THEN CreateNew(key, service_name, o.rt, o.log)
            ELSE {o}
            : o \in StartExisting(service_name, rt, log) }

\* create_accessory(config, service_name): the outcomes the runtime allows
create_accessory(cfg, key, rt) ==
    LET service_name == get_service_name(cfg, key)
        enter == <<Ev("create_accessory", key, "enter")>>
        raw == CallFails(rt, "containers.get", service_name, enter)
               \cup (IF Exists(rt, service_name)
                     THEN LookupExisting(key, service_name, rt,
                              Append(enter, Ev("containers.get", service_name, "ok")))
                     ELSE CreateNew(key, service_name, rt,
                              Append(enter, Ev("containers.get", service_name, "NotFound"))))
    IN  {EndCreate(key, service_name, o) : o \in raw}

\* ---------------------------------------------------- create_all_accessories

\* a Python dict kept as the sequence of its <<key, value>> items
DictKeys(d) == {d[i][1] : i \in 1..Len(d)}

DictSet(d, k, v) ==
    IF k \in DictKeys(d)
    THEN [i \in 1..Len(d) |-> IF d[i][1] = k THEN <<k, v>> ELSE d[i]]
    ELSE Append(d, <<k, v>>)

DictGet(d, k) == d[CHOOSE i \in 1..Len(d) : d[i][1] = k][2]

\* a loop that goes on to the next accessory after a failure
RECURSIVE CreateEachContinue(_, _, _, _, _, _)
CreateEachContinue(cfg, ordered, i, rt, results, log) ==
    IF i > Len(ordered)
    THEN {Returned(rt, results, log)}
    ELSE UNION { CreateEachContinue(cfg, ordered, i + 1, o.rt,
                     IF o.raised THEN results
                     ELSE DictSet(results, ordered[i], o.value), log \o o.log)
                 : o \in create_accessory(cfg, ordered[i], rt) }

\* a loop whose error does not say which accessory failed
RECURSIVE CreateEachAnonymous(_, _, _, _, _, _)
CreateEachAnonymous(cfg, ordered, i, rt, results, log) ==
    IF i > Len(ordered)
    THEN {Returned(rt, results, log)}
    ELSE UNION { IF o.raised
                 THEN {Raised(o.rt, "RuntimeError",
                              <<"Failed to start accessories. Aborting. Error: ">>
                                  \o o.msg,
                              log \o o.log)}
                 ELSE CreateEachAnonymous(cfg, ordered, i + 1, o.rt,
                          DictSet(results, ordered[i], o.value), log \o o.log)
                 : o \in create_accessory(cfg, ordered[i], rt) }

\* the for loop of create_all_accessories: the first accessory whose
\* create_accessory raises ends it with RuntimeError("Failed to start <name>.
\* Aborting. Error: <str(e)>")
RECURSIVE CreateEach(_, _, _, _, _, _)
CreateEach(cfg, ordered, i, rt, results, log) ==
    IF i > Len(ordered)
    THEN {Returned(rt, results, log)}
    ELSE UNION { IF o.raised
                 THEN {Raised(o.rt, "RuntimeError",
                              <<"Failed to start ", ordered[i], ". Aborting. Error: ">>
                                  \o o.msg,
                              log \o o.log)}
                 ELSE CreateEach(cfg, ordered, i + 1, o.rt,
                                 DictSet(results, ordered[i], o.value), log \o o.log)
                 : o \in create_accessory(cfg, ordered[i], rt) }

\* a create_all_accessories that takes the accessories in dict order
create_all_accessories_unsorted(cfg, rt) ==
    CreateEach(cfg, cfg.keys, 1, rt, <<>>, <<>>)

\* create_all_accessories(): sort, then create in that order
create_all_accessories(cfg, rt) ==
    LET ordered_services == sort_by_dependencies(cfg)
    IN  IF ordered_services.raised
        THEN {Raised(rt, ordered_services.exc, ordered_services.msg, <<>>)}
        ELSE CreateEach(cfg, ordered_services.value, 1, rt, <<>>, <<>>)

\* ------------------------------------------------------------ stop_accessory

\* a lookup that takes any name for an accessory's
find_accessory_any(cfg, name) == name

\* _find_accessory_by_name(name): the service name of the first accessory
\* that resolves to name, None when there is none
find_accessory_by_name(cfg, name) ==
    IF \E k \in Range(cfg.keys) : name = get_service_name(cfg, k)
    THEN name
    ELSE None

\* not name or not isinstance(name, str)
InvalidName(name) == name \in {"", None}

\* an error stop_accessory logs, and raises only with raise_errors
LoggedError(rt, raise_errors, exc, msg, log) ==
    IF raise_errors THEN Raised(rt, exc, msg, log) ELSE Returned(rt, None, log)

\* a stop that removes the container whether force is set or not
StopInnerRemoving(cfg, name, force, raise_errors, rt, log) ==
    IF InvalidName(name) \/ find_accessory_by_name(cfg, name) = None
    THEN {Returned(rt, None, log)}
    ELSE LET got == Append(log, Ev("containers.get", name, "ok"))
             removal(r, l) ==
                 {Returned(SetStatus(r, name, "absent"), None,
                           Append(l, Ev("remove", name, "ok")))}
         IN  IF ~Exists(rt, name)
             THEN {Returned(rt, None,
                            Append(log, Ev("containers.get", name, "NotFound")))}
             ELSE IF IsRunning(rt, name)
             THEN removal(SetStatus(rt, name, "exited"),
                          Append(got, Ev("stop", name, "ok")))
             ELSE removal(rt, got)

\* the statements of stop_accessory inside its outer try
StopInner(cfg, name, force, raise_errors, rt, log) ==
    IF InvalidName(name)
    THEN {LoggedError(rt, raise_errors, "ValueError",
                      <<"Invalid container name: ", name>>, log)}
    ELSE IF find_accessory_by_name(cfg, name) = None
    THEN {Returned(rt, None, log)}
    ELSE LET got == Append(log, Ev("containers.get", name, "ok"))
             \* docker.errors.APIError of a call, and any other exception
             failed(r, call, l) ==
                 { LoggedError(r, raise_errors, "RuntimeError",
                               <<"Failed to remove ", name, ": ", Explanation>>,
                               Append(l, Ev(call, name, "APIError"))),
                   Raised(r, "Exception", <<ErrorText>>,
                          Append(l, Ev(call, name, "Exception"))) }
             \* if force: container.remove(v=force)
             removal(r, l) ==
                 IF force
                 THEN failed(r, "remove", l)
                      \cup {Returned(SetStatus(r, name, "absent"), None,
                                     Append(l, Ev("remove", name, "ok")))}
                 ELSE {Returned(r, None, l)}
         IN  failed(rt, "containers.get", log)
             \cup (IF ~Exists(rt, name)
                   THEN {LoggedError(rt, raise_errors, "ValueError",
                                     <<"Container ", name, " not found">>,
                                     Append(log, Ev("containers.get", name, "NotFound")))}
                   ELSE IF IsRunning(rt, name)
                   THEN failed(rt, "stop", got)
                        \cup removal(SetStatus(rt, name, "exited"),
                                     Append(got, Ev("stop", name, "ok")))
                   ELSE removal(rt, got))

\* stop_accessory(name, force, raise_errors): the outer except clause takes
\* every exception of the statements inside, the ValueError and RuntimeError
\* raised there included, and raises RuntimeError("Unexpected error removing
\* container <name>: <str(e)>") with raise_errors, returns without
stop_accessory(cfg, name, force, raise_errors, rt) ==
    { IF o.raised
      THEN LoggedError(o.rt, raise_errors, "RuntimeError",
                       <<"Unexpected error removing container ", name, ": ">> \o o.msg,
                       o.log)
      ELSE o
      : o \in StopInner(cfg, name, force, raise_errors, rt,
                        <<Ev("stop_accessory", name, "enter")>>) }

\* ------------------------------------------------------ show_accessory_logs

\* show_accessory_logs(name): nothing for a name _find_accessory_by_name does
\* not know; else the container is looked up and its logs read, and whatever
\* either call raises is logged and the method returns
show_accessory_logs(cfg, name, rt) ==
    LET enter == <<Ev("show_accessory_logs", name, "enter")>>
        found == find_accessory_by_name(cfg, name)
        got == Append(enter, Ev("containers.get", found, "ok"))
        failed(call, l) ==
            { Returned(rt, None, Append(l, Ev(call, found, "APIError"))),
              Returned(rt, None, Append(l, Ev(call, found, "Exception"))) }
    IN  IF found = None
        THEN {Returned(rt, None, enter)}
        ELSE failed("containers.get", enter)
             \cup (IF ~Exists(rt, found)
                   THEN {Returned(rt, None,
                                  Append(enter, Ev("containers.get", found, "NotFound")))}
                   ELSE failed("logs", got)
                        \cup {Returned(rt, None, Append(got, Ev("logs", found, "ok")))})

\* ---------------------------------------------------------- stop_accessories

\* a value of the results dict: True, or the message of the error
Ok == [ok |-> TRUE, msg |-> <<>>]

Message(msg) == [ok |-> FALSE, msg |-> msg]

\* a loop that ends at the first name whose stop_accessory raises
RECURSIVE StopEachFailFast(_, _, _, _, _, _, _, _)
StopEachFailFast(cfg, names, i, force, raise_errors, rt, results, log) ==
    IF i > Len(names)
    THEN {Returned(rt, results, log)}
    ELSE UNION { IF o.raised
                 THEN {Returned(o.rt, DictSet(results, names[i], Message(o.msg)),
                                log \o o.log)}
                 ELSE StopEachFailFast(cfg, names, i + 1, force, raise_errors, o.rt,
                                       DictSet(results, names[i], Ok), log \o o.log)
                 : o \in stop_accessory(cfg, names[i], force, raise_errors, rt) }

\* a loop that keeps a list of results, one per name requested
RECURSIVE StopEachList(_, _, _, _, _, _, _, _)
StopEachList(cfg, names, i, force, raise_errors, rt, results, log) ==
    IF i > Len(names)
    THEN {Returned(rt, results, log)}
    ELSE UNION { StopEachList(cfg, names, i + 1, force, raise_errors, o.rt,
                     Append(results,
                            <<names[i], IF o.raised THEN Message(o.msg) ELSE Ok>>),
                     log \o o.log)
                 : o \in stop_accessory(cfg, names[i], force, raise_errors, rt) }

\* the for loop of stop_accessories: results[name] is True when stop_accessory
\* returned, str(e) when it raised
RECURSIVE StopEach(_, _, _, _, _, _, _, _)
StopEach(cfg, names, i, force, raise_errors, rt, results, log) ==
    IF i > Len(names)
    THEN {Returned(rt, results, log)}
    ELSE UNION { StopEach(cfg, names, i + 1, force, raise_errors, o.rt,
                          DictSet(results, names[i],
                                  IF o.raised THEN Message(o.msg) ELSE Ok),
                          log \o o.log)
                 : o \in stop_accessory(cfg, names[i], force, raise_errors, rt) }

\* stop_accessories(names, force, raise_errors)
stop_accessories(cfg, names, force, raise_errors, rt) ==
    StopEach(cfg, names, 1, force, raise_errors, rt, <<>>, <<>>)

\* ------------------------------------------------------- restart_accessories

\* a pass that restarts whatever container it finds, forced or not
RestartItemForced(name, force_restart, raise_errors, rt) ==
    LET item == <<Ev("restart_accessories", name, "item")>>
        got == Append(item, Ev("containers.get", name, "ok"))
    IN  IF InvalidName(name) \/ ~Exists(rt, name)
        THEN {[rt |-> rt, value |-> Message(<<"Container ", name, " not found">>),
               raised |-> FALSE, exc |-> None, msg |-> <<>>,
               log |-> Append(item, Ev("containers.get", name, "NotFound"))]}
        ELSE {[rt |-> SetStatus(rt, name, "running"), value |-> Ok,
               raised |-> FALSE, exc |-> None, msg |-> <<>>,
               log |-> Append(got, Ev("restart", name, "ok"))]}

\* one pass of the for loop of restart_accessories, for names[i]: what it puts
\* in results, and whether it leaves the loop by raising
RestartItem(name, force_restart, raise_errors, rt) ==
    LET item == <<Ev("restart_accessories", name, "item")>>
        Step(r, value, raised, exc, msg, log) ==
            [rt |-> r, value |-> value, raised |-> raised, exc |-> exc,
             msg |-> msg, log |-> log]
        \* an except clause: the message goes to results, and is raised with
        \* raise_errors
        caught(r, exc, msg, log) ==
            Step(r, Message(msg), raise_errors, exc, msg, log)
        failed(call, l) ==
            { caught(rt, "RuntimeError",
                     <<"Failed to start/restart ", name, ": ", Explanation>>,
                     Append(l, Ev(call, name, "APIError"))),
              caught(rt, "RuntimeError",
                     <<"Unexpected error starting/restarting ", name, ": ", ErrorText>>,
                     Append(l, Ev(call, name, "Exception"))) }
        got == Append(item, Ev("containers.get", name, "ok"))
    IN  IF InvalidName(name)
        THEN {Step(rt, Message(<<"Invalid container name: ", name>>), FALSE, None,
                   <<>>, item)}
        ELSE failed("containers.get", item)
             \cup (IF ~Exists(rt, name)
                   THEN {caught(rt, "ValueError", <<"Container ", name, " not found">>,
                                Append(item, Ev("containers.get", name, "NotFound")))}
                   ELSE IF ~IsRunning(rt, name) /\ ~force_restart
                   THEN {Step(rt, Message(<<"Container ", name, " is not running">>),
                              FALSE, None, <<>>, got)}
                   ELSE failed("restart", got)
                        \cup {Step(SetStatus(rt, name, "running"), Ok, FALSE, None,
                                   <<>>, Append(got, Ev("restart", name, "ok")))})

\* a loop that leaves at an error whatever raise_errors says
RECURSIVE RestartEachAlwaysRaise(_, _, _, _, _, _, _)
RestartEachAlwaysRaise(names, i, force_restart, raise_errors, rt, results, log) ==
    IF i > Len(names)
    THEN {Returned(rt, results, log)}
    ELSE UNION { IF o.raised \/ ~o.value.ok
                 THEN {Raised(o.rt, "RuntimeError", o.value.msg, log \o o.log)}
                 ELSE RestartEachAlwaysRaise(names, i + 1, force_restart,
                          raise_errors, o.rt, DictSet(results, names[i], o.value),
                          log \o o.log)
                 : o \in RestartItem(names[i], force_restart, raise_errors, rt) }

\* the for loop of restart_accessories: an exception raised in an except
\* clause leaves the function, and the results with it
RECURSIVE RestartEach(_, _, _, _, _, _, _)
RestartEach(names, i, force_restart, raise_errors, rt, results, log) ==
    IF i > Len(names)
    THEN {Returned(rt, results, log)}
    ELSE UNION { IF o.raised
                 THEN {Raised(o.rt, o.exc, o.msg, log \o o.log)}
                 ELSE RestartEach(names, i + 1, force_restart, raise_errors, o.rt,
                                  DictSet(results, names[i], o.value), log \o o.log)
                 : o \in RestartItem(names[i], force_restart, raise_errors, rt) }

\* restart_accessories(names, timeout, force_restart, raise_errors)
restart_accessories(names, force_restart, raise_errors, rt) ==
    RestartEach(names, 1, force_restart, raise_errors, rt, <<>>, <<>>)

\* ------------------------------------------------------------------ connect

\* the handle docker.from_env() or docker.DockerClient(...) returns
Client == "<DockerClient>"

\* the versions the daemon may report
Versions == {"20.10.0", "1.0.0"}

\* how connect() and check_docker_version() end: an outcome, and the value
\* self.docker_client is left with
Session(client, o) ==
    [rt |-> o.rt, raised |-> o.raised, exc |-> o.exc, msg |-> o.msg,
     value |-> o.value, log |-> o.log, client |-> client]

\* check_docker_version(): without a client RuntimeError; a DockerException
\* of client.version() becomes ConnectionError("Could not connect to Docker
\* daemon."), any other exception is raised again as it is
check_docker_version(client, rt, log) ==
    IF client = None
    THEN {Raised(rt, "RuntimeError",
                 <<"Docker client not connected. ",
                   "Call connect() before checking the version.">>, log)}
    ELSE { Returned(rt, v, Append(log, Ev("version", v, "ok"))) : v \in Versions }
         \cup { Raised(rt, "ConnectionError", <<"Could not connect to Docker daemon.">>,
                       Append(log, Ev("version", None, "DockerException"))),
                Raised(rt, "Exception", <<ErrorText>>,
                       Append(log, Ev("version", None, "Exception"))) }

\* the except clause of connect(): a DockerException becomes
\* ConnectionError("Failed to connect to Docker: <str(e)>"); nothing else is
\* caught
ConnectFails(rt, call, name, log) ==
    { Raised(rt, "ConnectionError", <<"Failed to connect to Docker: ", ErrorText>>,
             Append(log, Ev(call, name, "DockerException"))),
      Raised(rt, "Exception", <<ErrorText>>, Append(log, Ev(call, name, "Exception"))) }

\* connect() past the transport: check_docker_version(), then ping()
ConnectProbe(rt, log) ==
    UNION { IF v.raised THEN {v}
            ELSE ConnectFails(rt, "ping", None, v.log)
                 \cup {Returned(rt, Client, Append(v.log, Ev("ping", None, "ok")))}
            : v \in check_docker_version(Client, rt, log) }

\* connect() on a manager whose docker_client is client: the transport is
\* docker.DockerClient(base_url=builder.remote) unless builder.local, and
\* docker.from_env() with it; the handle is stored before it is probed
connect(b, client, rt) ==
    LET call == IF ~b.local THEN "docker.DockerClient" ELSE "docker.from_env"
        name == IF ~b.local THEN b.remote ELSE None
    IN  {Session(client, o) : o \in ConnectFails(rt, call, name, <<>>)}
        \cup {Session(Client, o) : o \in ConnectProbe(rt, <<Ev(call, name, "ok")>>)}

\* --------------------------------------------------- reboot_single_accessory

\* str(e) of the NullResource docker-py raises, before any request, when it is
\* given no container id
NullResource == "Resource ID was not provided"

\* step 1 of reboot_single_accessory: get the container named
\* accessory.service, stop it when it runs, remove it; NotFound is passed
\* over, an APIError becomes RuntimeError("Failed to remove ...")
RemoveOld(container_name, rt, log) ==
    IF container_name = None
    THEN {Raised(rt, "NullResource", <<NullResource>>,
                 Append(log, Ev("containers.get", container_name, "NullResource")))}
    ELSE LET got == Append(log, Ev("containers.get", container_name, "ok"))
             failed(r, call, l) ==
                 { Raised(r, "RuntimeError",
                          <<"Failed to remove ", container_name, ": ", Explanation>>,
                          Append(l, Ev(call, container_name, "APIError"))),
                   Raised(r, "Exception", <<ErrorText>>,
                          Append(l, Ev(call, container_name, "Exception"))) }
             removal(r, l) ==
                 failed(r, "remove", l)
                 \cup {Returned(SetStatus(r, container_name, "absent"), None,
                                Append(l, Ev("remove", container_name, "ok")))}
         IN  failed(rt, "containers.get", log)
             \cup (IF ~Exists(rt, container_name)
                   THEN {Returned(rt, None,
                                  Append(log, Ev("containers.get", container_name,
                                                 "NotFound")))}
                   ELSE IF IsRunning(rt, container_name)
                   THEN failed(rt, "stop", got)
                        \cup removal(SetStatus(rt, container_name, "exited"),
                                     Append(got, Ev("stop", container_name, "ok")))
                   ELSE removal(rt, got))

\* container_name = accessory.service: the configured name, None when the
\* configuration leaves it out
reboot_container_name(cfg, accessory_name) == cfg.service[accessory_name]

\* a step 2 that runs whatever step 1 came to
RebootCreateAnyway(cfg, accessory_name, old) ==
    create_accessory(cfg, accessory_name, old.rt)

\* step 2 of reboot_single_accessory, reached only when step 1 did not raise
RebootCreate(cfg, accessory_name, old) ==
    IF old.raised THEN {old} ELSE create_accessory(cfg, accessory_name, old.rt)

\* reboot_single_accessory(accessory_name, force): True, or the error message;
\* every exception of the two steps is caught and returned as a message
reboot_single_accessory(cfg, accessory_name, force, rt) ==
    LET enter == <<Ev("reboot_single_accessory", accessory_name, "enter")>>
    IN  IF accessory_name \notin Range(cfg.keys)
        THEN {Returned(rt, Message(<<"Accessory '", accessory_name,
                                     "' not found in configuration">>), enter)}
        ELSE UNION {
               { IF new.raised
                 THEN Returned(new.rt,
                               Message(<<"Failed to reboot ", accessory_name, ": ">>
                                           \o new.msg),
                               IF old.raised THEN old.log ELSE old.log \o new.log)
                 ELSE Returned(new.rt, Ok, old.log \o new.log)
                 : new \in RebootCreate(cfg, accessory_name, old) }
               : old \in RemoveOld(reboot_container_name(cfg, accessory_name),
                                    rt, enter) }

\* ---------------------------------------------------- reboot_all_accessories

\* a loop that ends at the first accessory whose reboot fails
RECURSIVE RebootEachFailFast(_, _, _, _, _)
RebootEachFailFast(cfg, i, force, rt, log) ==
    IF i > Len(cfg.keys)
    THEN {Returned(rt, None, log)}
    ELSE UNION { IF o.value.ok
                 THEN RebootEachFailFast(cfg, i + 1, force, o.rt, log \o o.log)
                 ELSE {Returned(o.rt, None, log \o o.log)}
                 : o \in reboot_single_accessory(cfg, cfg.keys[i], force, rt) }

\* the for loop of reboot_all_accessories: every key of config.accessories,
\* the result of each reboot dropped
RECURSIVE RebootEach(_, _, _, _, _)
RebootEach(cfg, i, force, rt, log) ==
    IF i > Len(cfg.keys)
    THEN {Returned(rt, None, log)}
    ELSE UNION { RebootEach(cfg, i + 1, force, o.rt, log \o o.log)
                 : o \in reboot_single_accessory(cfg, cfg.keys[i], force, rt) }

\* reboot_all_accessories(force)
reboot_all_accessories(cfg, force, rt) == RebootEach(cfg, 1, force, rt, <<>>)

\* ---------------------------------------------------------------- deploy_app

\* stop_app_container(force): the application container is stopped when it
\* runs and removed with force; NotFound and APIError are logged and the
\* method returns, any other exception leaves it
stop_app_container(rt, force) ==
    LET name == AppService
        got == <<Ev("containers.get", name, "ok")>>
        failed(r, call, l) ==
            { Returned(r, None, Append(l, Ev(call, name, "APIError"))),
              Raised(r, "Exception", <<ErrorText>>,
                     Append(l, Ev(call, name, "Exception"))) }
        removal(r, l) ==
            IF force
            THEN failed(r, "remove", l)
                 \cup {Returned(SetStatus(r, name, "absent"), None,
                                Append(l, Ev("remove", name, "ok")))}
            ELSE {Returned(r, None, l)}
    IN  failed(rt, "containers.get", <<>>)
        \cup (IF ~Exists(rt, name)
              THEN {Returned(rt, None, <<Ev("containers.get", name, "NotFound")>>)}
              ELSE IF IsRunning(rt, name)
              THEN failed(rt, "stop", got)
                   \cup removal(SetStatus(rt, name, "exited"),
                                Append(got, Ev("stop", name, "ok")))
              ELSE removal(rt, got))

\* list_accessory_services(): accessory.service of every accessory, in dict
\* order, None where the configuration leaves it out
list_accessory_services(cfg) == [i \in 1..Len(cfg.keys) |-> cfg.service[cfg.keys[i]]]

\* the try block of delete_image: False when the image is not there, True
\* when it was removed; an APIError becomes RuntimeError("Failed to delete
\* ..."), any other exception leaves as it is.  Whether the image is there is
\* the runtime's answer
DeleteImageBody(rt, image_name) ==
    LET got == <<Ev("images.get", image_name, "ok")>>
        failed(call, l) ==
            { Raised(rt, "RuntimeError",
                     <<"Failed to delete ", image_name, ": ", Explanation>>,
                     Append(l, Ev(call, image_name, "APIError"))),
              Raised(rt, "Exception", <<ErrorText>>,
                     Append(l, Ev(call, image_name, "Exception"))) }
    IN  failed("images.get", <<>>)
        \cup {Returned(rt, FALSE, <<Ev("images.get", image_name, "ImageNotFound")>>)}
        \cup failed("images.remove", got)
        \cup {Returned(rt, TRUE, Append(got, Ev("images.remove", image_name, "ok")))}

\* what Python raises for self.docker_client.images with docker_client None
NoneHasNoImages == "'NoneType' object has no attribute 'images'"

\* delete_image(image_name, force) on a manager whose docker_client is client:
\* the name is checked, then self.docker_client.images is used as it is
delete_image(client, rt, image_name) ==
    IF image_name = ""
    THEN {Raised(rt, "ValueError", <<"Image name cannot be empty">>, <<>>)}
    ELSE IF client = None
    THEN {Raised(rt, "AttributeError", <<NoneHasNoImages>>, <<>>)}
    ELSE DeleteImageBody(rt, image_name)

\* build_image_from_dockerfile(builder, tag): the built image, or
\* RuntimeError for an APIError of the build or of the closing images.get and
\* for anything else, an error chunk of the build stream included
build_image_from_dockerfile(rt, tag) ==
    { Returned(rt, tag, <<Ev("api.build", tag, "ok")>>),
      Raised(rt, "RuntimeError", <<"Docker API error: ", Explanation>>,
             <<Ev("api.build", tag, "APIError")>>),
      Raised(rt, "RuntimeError", <<"Unexpected error: ", ErrorText>>,
             <<Ev("api.build", tag, "Exception")>>) }

\* the containers.run that ends deploy_app: NotFound is logged and the method
\* returns None, an APIError becomes RuntimeError("Failed to run ...")
RunApp(rt, image) ==
    LET name == AppService
        refused == Raised(rt, "RuntimeError",
                          <<"Failed to run ", name, ": ", Explanation>>,
                          <<Ev("containers.run", name, "APIError")>>)
    IN  IF Exists(rt, name)
        THEN {refused}
        ELSE { refused,
               Raised(rt, "Exception", <<ErrorText>>,
                      <<Ev("containers.run", name, "Exception")>>),
               Returned(rt, None, <<Ev("containers.run", name, "NotFound")>>),
               Returned(SetStatus(rt, name, "running"), name,
                        <<Ev("containers.run", name, "ok")>>),
               Raised(SetStatus(rt, name, "created"), "RuntimeError",
                      <<"Failed to run ", name, ": ", Explanation>>,
                      <<Ev("containers.run", name, "APIError after create")>>) }

\* how stop_app_container and stop_accessories, which catch the errors of
\* their calls, ended for deploy_app: raised; returned although a call inside
\* failed; returned having found no container; returned
StageResult(o) ==
    IF o.raised THEN "raise"
    ELSE IF \E i \in 1..Len(o.log) : o.log[i].res \in {"APIError", "Exception"}
    THEN "failed"
    ELSE IF \E i \in 1..Len(o.log) : o.log[i].res = "NotFound"
    THEN "not found"
    ELSE "return"

\* the entry the log of deploy_app keeps of such a stage
Stage(call, name, o) == Ev(call, name, StageResult(o))

\* the entry it keeps of a stage that raises its errors
Ended(call, name, o) == Ev(call, name, IF o.raised THEN "raise" ELSE "return")

\* what the log of deploy_app keeps of the calls inside a stage: the calls of
\* create_accessory and stop_accessory, not the runtime calls they make
Kept(log) == SelectSeq(log, LAMBDA e : e.call \in {"create_accessory", "stop_accessory"})

\* the subject of a stage that is about every accessory
All == "<all>"

\* the except clause of deploy_app: whatever a stage raises becomes
\* RuntimeError("Unexpected error: <str(e)>")
DeployAbort(o, log) ==
    Raised(o.rt, "RuntimeError", <<"Unexpected error: ">> \o o.msg, log)

\* deploy_app from containers.run on
DeployRun(rt, log, image) ==
    { IF o.raised THEN DeployAbort(o, log \o o.log)
      ELSE Returned(o.rt, o.value, log \o o.log)
      : o \in RunApp(rt, image) }

\* a deploy that runs the application container whatever create_all came to
DeployCreateRegardless(cfg, rt, log, image) ==
    UNION { DeployRun(o.rt,
                      log \o Kept(o.log)
                          \o <<Ended("create_all_accessories", All, o)>>,
                      image)
            : o \in create_all_accessories(cfg, rt) }

\* deploy_app from create_all_accessories() on
DeployCreate(cfg, rt, log, image) ==
    UNION { LET l == log \o Kept(o.log)
                         \o <<Ended("create_all_accessories", All, o)>>
            IN  IF o.raised THEN {DeployAbort(o, l)}
                ELSE DeployRun(o.rt, l, image)
            : o \in create_all_accessories(cfg, rt) }

\* deploy_app from build_image_from_dockerfile on
DeployBuild(cfg, rt, log) ==
    UNION { LET l == Append(log, Ended("build_image_from_dockerfile", AppImage, o))
            IN  IF o.raised THEN {DeployAbort(o, l)}
                ELSE DeployCreate(cfg, o.rt, l, o.value)
            : o \in build_image_from_dockerfile(rt, AppImage) }

\* deploy_app from delete_image(config.image, force=True) on
DeployDelete(cfg, rt, log) ==
    UNION { LET l == Append(log, Ended("delete_image", AppImage, o))
            IN  IF o.raised THEN {DeployAbort(o, l)}
                ELSE DeployBuild(cfg, o.rt, l)
            : o \in delete_image(Client, rt, AppImage) }

\* deploy_app from stop_accessories(list_accessory_services(), True) on: the
\* results it returns are dropped
DeployStopAccessories(cfg, rt, log) ==
    UNION { LET l == log \o Kept(o.log) \o <<Stage("stop_accessories", All, o)>>
            IN  IF o.raised THEN {DeployAbort(o, l)}
                ELSE DeployDelete(cfg, o.rt, l)
            : o \in stop_accessories(cfg, list_accessory_services(cfg), TRUE, FALSE,
                                      rt) }

\* deploy_app()
deploy_app(cfg, rt) ==
    UNION { LET l == <<Stage("stop_app_container", AppService, o)>>
            IN  IF o.raised THEN {DeployAbort(o, l)}
                ELSE DeployStopAccessories(cfg, o.rt, l)
            : o \in stop_app_container(rt, TRUE) }

\* --------------------------------------------------- loading and listing

\* a name no accessory of a configuration has
Missing == "nonexistent"

\* the values AppConfig.service takes: the default, and one that is set
AppServices == {"asantiya", "test-app"}

\* the loop of AppConfig.validate_dependencies from accessory i, dependency
\* j on: the first accessory, in dict order, and its first dependency, in
\* list order, that is no key of accessories; <<>> when there is none
RECURSIVE FirstUndefined(_, _, _)
FirstUndefined(data, i, j) ==
    IF i > Len(data.keys) THEN <<>>
    ELSE LET name == data.keys[i]
             deps == data.depends_on[name]
         IN  IF j > Len(deps) THEN FirstUndefined(data, i + 1, 1)
             ELSE IF deps[j] \notin Range(data.keys) THEN <<name, deps[j]>>
             ELSE FirstUndefined(data, i, j + 1)

\* a validator that lets every configuration through
AcceptAll(data) ==
    [raised |-> FALSE, exc |-> None, msg |-> <<>>, value |-> data.app,
     log |-> <<>>]

\* AppConfig(**data), for data whose fields are each valid: the model
\* validator validate_dependencies runs last, and its ValueError reaches the
\* caller as pydantic's ValidationError with the same text
validate_dependencies(data) ==
    LET u == FirstUndefined(data, 1, 1)
    IN  IF u = <<>>
        THEN [raised |-> FALSE, exc |-> None, msg |-> <<>>,
              value |-> data.app, log |-> <<>>]
        ELSE [raised |-> TRUE, exc |-> "ValidationError",
              msg |-> <<"Accessory '", u[1], "' depends on '", u[2],
                        "' which is not defined">>,
              value |-> None, log |-> <<>>]

\* _format_uptime(started_at, status): "Up ..." with the time a running
\* container has been up, the capitalized status for any other
format_uptime(status) ==
    IF status = "running" THEN "Up less than a minute"
    ELSE IF status = "exited" THEN "Exited"
    ELSE status

\* containers.list(all=True): the names of the containers there are
ListAll(rt) == {c \in DOMAIN rt.containers : Exists(rt, c)}

\* one row of the table: the STATUS and NAMES columns
Row(status, name) == [status |-> status, name |-> name]

\* the row of an accessory no container matches: accessory.service as
\* configured
NotCreated(cfg, key) == Row("Not created", cfg.service[key])

\* _get_container_table_rows(configs, all_containers): for each accessory,
\* in dict order, the row of the container named as _get_service_name
\* resolves, or the "Not created" row
get_container_table_rows(cfg, rt) ==
    [i \in 1..Len(cfg.keys) |->
        LET key  == cfg.keys[i]
            name == get_service_name(cfg, key)
        IN  IF name \in ListAll(rt)
            THEN Row(format_uptime(rt.containers[name]), name)
            ELSE NotCreated(cfg, key)]

\* list_configured_containers(): the rows of the table it prints; an
\* exception of containers.list is printed, no row is made and no table
\* printed
list_configured_containers(cfg, rt) ==
    { Returned(rt, get_container_table_rows(cfg, rt),
               <<Ev("containers.list", None, "ok")>>),
      Returned(rt, <<>>, <<Ev("containers.list", None, "APIError")>>),
      Returned(rt, <<>>, <<Ev("containers.list", None, "Exception")>>) }

\* -------------------------------------------------------------------- state

VARIABLES
    accessories,  \* config.accessories: [keys, depends_on, service]
    containers,   \* the runtime's containers: name -> status
    networks,     \* the runtime's networks, by name
    last,         \* the operation that ran last: arguments, outcome, log
    prev,         \* the create_accessory, if it was one, that ran right before it
    callers,      \* the calls under way when invocations run side by side
    trace,        \* the runtime calls of those invocations, in the order made
    builder,      \* config.builder: [local, remote]
    docker_client \* self.docker_client: None until connect() sets it

vars ==
    <<accessories, containers, networks, last, prev, callers, trace, builder,
      docker_client>>

\* the connection of the invocation
session == <<builder, docker_client>>

\* the state of the invocations that run side by side
racing == <<callers, trace>>

Runtime == [containers |-> containers, networks |-> networks]

NoOp ==
    [op |-> "none", arg |-> <<>>, raised |-> FALSE, exc |-> None, msg |-> <<>>,
     value |-> None, log |-> <<>>]

NoPrev == [key |-> None, raised |-> FALSE, created |-> 0]

\* what an operation leaves in last
Done(op, arg, o) ==
    [op |-> op, arg |-> arg, raised |-> o.raised, exc |-> o.exc, msg |-> o.msg,
     value |-> o.value, log |-> o.log]

\* the containers an operation's log shows the runtime to have created
Created(log) ==
    Cardinality({i \in 1..Len(log) :
                    /\ log[i].call = "containers.run"
                    /\ log[i].res \in {"ok", "APIError after create"}})

\* the ways the service names of the keys K are configured: none set, or
\* every one set
ServiceChoices(K) == {[k \in K |-> None], [k \in K |-> ExplicitService(k)]}

\* a configuration over the first n keys
Config(n, depends_on, service) ==
    [keys |-> KeysOf(n), depends_on |-> depends_on, service |-> service]

\* the runtime before the invocation: the containers of earlier invocations,
\* in any state; others names the containers outside the configuration that
\* may be there too
ContainerStates(cfg, others) ==
    LET R == ResolvedNames(cfg)
    IN  { [c \in CNames |-> IF c \in R THEN f[c]
                            ELSE IF c \in others THEN g[c] ELSE "absent"] :
            f \in [R -> {"absent", "running", "exited"}],
            g \in [others -> {"absent", "running"}] }

\* Builder() as the schema fills it in: remote "", local False
DefaultBuilder == [local |-> FALSE, remote |-> ""]

\* an invocation past its connect(): the operations on accessories run with a
\* handle
Connected ==
    /\ builder = DefaultBuilder
    /\ docker_client = Client

\* the invocations that may run side by side
Callers == 1..NumCallers

\* a caller with no call under way
Idle ==
    [pc |-> "idle", name |-> None, seen |-> None, creates |-> 0, result |-> None]

\* one invocation at a time: nobody runs side by side
NoCallers ==
    /\ callers = [p \in Callers |-> Idle]
    /\ trace = <<>>

\* ------------------------------------------------------ the reboot command

\* the try block of the reboot command past connect(): NAME other than "all"
\* and not empty is reboot_single_accessory(name), whose answer other than
\* True is echoed and followed by typer.Exit(1); anything else is
\* reboot_all_accessories(force)
RebootBody(cfg, name, force, rt) ==
    IF name # "" /\ name # "all"
    THEN { IF o.value = Ok THEN o
           ELSE Raised(o.rt, "Exit", o.value.msg, o.log)
           : o \in reboot_single_accessory(cfg, name, FALSE, rt) }
    ELSE reboot_all_accessories(cfg, force, rt)

\* the except clause of the reboot command: every Exception, typer.Exit with
\* them, is logged and the command returns; an interrupt is no Exception and
\* leaves the command as it is
RebootCaught(o) ==
    IF o.raised /\ o.exc # "KeyboardInterrupt"
    THEN Returned(o.rt, None, Append(o.log, Ev("_logger.exception", o.exc, "ok")))
    ELSE o

\* reboot(name, force) on a manager fresh from DockerManager(): connect(),
\* the body, the except clause; the function has no finally clause and the
\* manager no call that closes docker_client, so that the handle connect()
\* stored is what the command leaves; the command itself returns None
reboot(b, cfg, name, force, rt) ==
    UNION { IF s.raised
            THEN {Session(s.client, RebootCaught(s))}
            ELSE {Session(s.client, RebootCaught(Raised(s.rt, "KeyboardInterrupt", <<>>, s.log)))}
                 \cup {Session(s.client,
                               RebootCaught(Outcome(o.rt, o.raised, o.exc, o.msg,
                                                    None, s.log \o o.log)))
                        : o \in RebootBody(cfg, name, force, s.rt)}
            : s \in connect(b, None, rt) }

\* ------------------------------------------------------------------ actions

\* order(): sort_by_dependencies on the configuration
Order ==
    /\ last.op = "none"
    /\ last' = LET r == sort_by_dependencies(accessories)
               IN  [op |-> "sort_by_dependencies", arg |-> <<>>,
                    raised |-> r.raised, exc |-> r.exc, msg |-> r.msg,
                    value |-> r.value, log |-> <<>>]
    /\ accessories' = ConfigsAfterSort(accessories)
    /\ UNCHANGED <<containers, networks, prev>>

\* order() on the configuration as earlier calls left it
OrderNow ==
    /\ last' = LET r == sort_by_dependencies(accessories)
               IN  [op |-> "sort_by_dependencies", arg |-> <<>>,
                    raised |-> r.raised, exc |-> r.exc, msg |-> r.msg,
                    value |-> r.value, log |-> <<>>]
    /\ accessories' = ConfigsAfterSort(accessories)
    /\ UNCHANGED <<containers, networks>>

\* createAll: create_all_accessories()
CreateAll ==
    \E o \in create_all_accessories(accessories, Runtime) :
        /\ containers' = o.rt.containers
        /\ networks' = o.rt.networks
        /\ last' = Done("create_all_accessories", <<>>, o)
        /\ accessories' = ConfigsAfterSort(accessories)

\* createOrReuse: create_accessory(config.accessories[key], key)
CreateAccessory(key) ==
    \E o \in create_accessory(accessories, key, Runtime) :
        /\ containers' = o.rt.containers
        /\ networks' = o.rt.networks
        /\ last' = Done("create_accessory", key, o)
        /\ UNCHANGED accessories

\* the runtime changes out of band: a running container exits, a container is
\* removed
RuntimeChanges ==
    \E c \in CNames :
        /\ Exists(Runtime, c)
        /\ \/ IsRunning(Runtime, c) /\ containers' = [containers EXCEPT ![c] = "exited"]
           \/ containers' = [containers EXCEPT ![c] = "absent"]
        /\ last' = NoOp
        /\ UNCHANGED <<accessories, networks>>

\* stop: stop_accessories(names, force, raise_errors)
StopAccessories(names, force, raise_errors) ==
    \E o \in stop_accessories(accessories, names, force, raise_errors, Runtime) :
        /\ containers' = o.rt.containers
        /\ networks' = o.rt.networks
        /\ last' = Done("stop_accessories",
                        [names |-> names, force |-> force,
                         raise_errors |-> raise_errors], o)
        /\ UNCHANGED accessories

\* stop of one accessory: stop_accessory(name, force, raise_errors)
StopAccessory(name, force, raise_errors) ==
    \E o \in stop_accessory(accessories, name, force, raise_errors, Runtime) :
        /\ containers' = o.rt.containers
        /\ networks' = o.rt.networks
        /\ last' = Done("stop_accessory",
                        [name |-> name, force |-> force,
                         raise_errors |-> raise_errors], o)
        /\ UNCHANGED accessories

\* logs: show_accessory_logs(name)
ShowAccessoryLogs(name) ==
    \E o \in show_accessory_logs(accessories, name, Runtime) :
        /\ containers' = o.rt.containers
        /\ networks' = o.rt.networks
        /\ last' = Done("show_accessory_logs",
                        [name |-> name, force |-> FALSE, raise_errors |-> FALSE], o)
        /\ UNCHANGED accessories

\* _find_accessory_by_name(name)
FindAccessoryByName(name) ==
    /\ last' = [op |-> "_find_accessory_by_name",
                arg |-> [name |-> name, force |-> FALSE, raise_errors |-> FALSE],
                raised |-> FALSE, exc |-> None, msg |-> <<>>,
                value |-> find_accessory_by_name(accessories, name), log |-> <<>>]
    /\ UNCHANGED <<accessories, containers, networks>>

\* restart: restart_accessories(names, force_restart=force, raise_errors)
RestartAccessories(names, force_restart, raise_errors) ==
    \E o \in restart_accessories(names, force_restart, raise_errors, Runtime) :
        /\ containers' = o.rt.containers
        /\ networks' = o.rt.networks
        /\ last' = Done("restart_accessories",
                        [names |-> names, force |-> force_restart,
                         raise_errors |-> raise_errors], o)
        /\ UNCHANGED accessories

\* reboot NAME: reboot_single_accessory(name), force left at its default
RebootSingle(accessory_name) ==
    \E o \in reboot_single_accessory(accessories, accessory_name, FALSE, Runtime) :
        /\ containers' = o.rt.containers
        /\ networks' = o.rt.networks
        /\ last' = Done("reboot_single_accessory", accessory_name, o)
        /\ UNCHANGED accessories

\* reboot all: reboot_all_accessories(force)
RebootAll(force) ==
    \E o \in reboot_all_accessories(accessories, force, Runtime) :
        /\ containers' = o.rt.containers
        /\ networks' = o.rt.networks
        /\ last' = Done("reboot_all_accessories", force, o)
        /\ UNCHANGED accessories

\* deployApplication: deploy_app()
DeployApp ==
    \E o \in deploy_app(accessories, Runtime) :
        /\ containers' = o.rt.containers
        /\ networks' = o.rt.networks
        /\ last' = Done("deploy_app", <<>>, o)
        /\ accessories' =
              IF \E i \in 1..Len(o.log) : o.log[i].call = "create_all_accessories"
              THEN ConfigsAfterSort(accessories)
              ELSE accessories

\* connect()
Connect ==
    \E o \in connect(builder, docker_client, Runtime) :
        /\ docker_client' = o.client
        /\ last' = Done("connect", docker_client, o)
        /\ UNCHANGED <<accessories, containers, networks, builder>>

\* the command "reboot NAME [--force]"
RebootCommand(name, force) ==
    \E o \in reboot(builder, accessories, name, force, Runtime) :
        /\ docker_client' = o.client
        /\ containers' = o.rt.containers
        /\ networks' = o.rt.networks
        /\ last' = Done("reboot", [name |-> name, force |-> force], o)
        /\ UNCHANGED <<accessories, builder>>

\* check_docker_version()
CheckDockerVersion ==
    \E o \in check_docker_version(docker_client, Runtime, <<>>) :
        /\ last' = Done("check_docker_version", docker_client, o)
        /\ UNCHANGED <<accessories, containers, networks, builder, docker_client>>

\* delete_image(image_name)
DeleteImage(image_name) ==
    \E o \in delete_image(docker_client, Runtime, image_name) :
        /\ last' = Done("delete_image",
                        [client |-> docker_client, image_name |-> image_name], o)
        /\ UNCHANGED <<accessories, containers, networks, builder, docker_client>>

\* ensurePresent: pull_images(images)
PullImages(images) ==
    \E o \in pull_images_list(Runtime, images) :
        /\ last' = Done("pull_images", images, o)
        /\ UNCHANGED <<accessories, containers, networks>>

\* order(), in the run-th process started on the configuration
OrderRun(run) ==
    /\ \E r \in sort_runs(accessories) :
          last' = [op |-> "sort_by_dependencies", arg |-> run,
                   raised |-> r.raised, exc |-> r.exc, msg |-> r.msg,
                   value |-> r.value, log |-> <<>>]
    /\ accessories' = ConfigsAfterSort(accessories)
    /\ UNCHANGED <<containers, networks>>

\* AppConfig(**data): the configuration is validated as it is loaded
LoadConfig ==
    /\ last.op = "none"
    /\ last' = Done("AppConfig", <<>>, validate_dependencies(accessories))
    /\ UNCHANGED <<accessories, containers, networks>>

\* the configuration was accepted: there is a manager to call
Loaded == last.op = "AppConfig" /\ ~last.raised

\* _get_service_name(config.accessories[key], key)
GetServiceName(key) ==
    /\ Loaded
    /\ last' = [op |-> "_get_service_name", arg |-> key, raised |-> FALSE,
                exc |-> None, msg |-> <<>>,
                value |-> get_service_name(accessories, key), log |-> <<>>]
    /\ UNCHANGED <<accessories, containers, networks>>

\* the status list: list_configured_containers()
ListConfigured ==
    /\ Loaded
    /\ \E o \in list_configured_containers(accessories, Runtime) :
          last' = Done("list_configured_containers", <<>>, o)
    /\ UNCHANGED <<accessories, containers, networks>>

\* ---- ensure_network, call by call, for invocations that run side by side

\* the network names ensure_network is called for
NetworkNames == {AccNetwork, "net1"}

\* one runtime call in the trace: who made it, the call, its subject, its answer
Call(p, call, name, res) == [caller |-> p, call |-> call, name |-> name, res |-> res]

\* how a call of ensure_network ends
NetEnd(c, result) == [c EXCEPT !.pc = "done", !.result = result]

\* an ensure_network that creates whatever the list says
MustCreateAlways(listed, network_name) == TRUE

\* not any(net.name == network_name for net in client.networks.list())
MustCreate(listed, network_name) == network_name \notin listed

\* ensure_network up to the answer of client.networks.list(): the network is
\* there and the call returns, or it is not and the create is next; an
\* APIError becomes RuntimeError, any other exception passes through
NetList(p, network_name) ==
    /\ callers[p].pc \in {"idle", "done"}
    /\ Cardinality({i \in 1..Len(trace) : trace[i].call = "networks.list"})
           < MaxNetCalls
    /\ LET c == [Idle EXCEPT !.name = network_name]
           \* what the list shows of the network
           listed == [c EXCEPT !.seen = IF network_name \in networks
                                        THEN "present" ELSE "absent"]
       IN
       \E res \in {"ok", "APIError", "Exception"} :
          /\ trace' = Append(trace, Call(p, "networks.list", network_name, res))
          /\ callers' = [callers EXCEPT ![p] =
                IF res = "APIError" THEN NetEnd(c, "RuntimeError")
                ELSE IF res = "Exception" THEN NetEnd(c, "Exception")
                ELSE IF MustCreate(networks, network_name)
                THEN [listed EXCEPT !.pc = "create"]
                ELSE NetEnd(listed, "success")]
    /\ UNCHANGED <<accessories, containers, networks, last, prev>>

\* client.networks.create(network_name, check_duplicate=True): the runtime
\* refuses a name that is taken, and that APIError becomes RuntimeError as
\* every other one does
NetCreate(p) ==
    /\ callers[p].pc = "create"
    /\ LET c == [callers[p] EXCEPT !.creates = @ + 1]
           network_name == c.name
       IN  \E res \in (IF network_name \in networks
                        THEN {"already exists"}
                        ELSE {"ok", "APIError"}) \cup {"Exception"} :
              /\ trace' = Append(trace, Call(p, "networks.create", network_name, res))
              /\ networks' = IF res = "ok" THEN networks \cup {network_name}
                              ELSE networks
              /\ callers' = [callers EXCEPT ![p] =
                    IF res = "ok" THEN NetEnd(c, "success")
                    ELSE IF res = "Exception" THEN NetEnd(c, "Exception")
                    ELSE NetEnd(c, "RuntimeError")]
    /\ UNCHANGED <<accessories, containers, last, prev>>

\* ---- create_accessory, call by call, for invocations that run side by side

\* how a step of create_accessory that ended the call leaves it: the
\* container returned, or the exception of the except clause, where an
\* APIError becomes RuntimeError("Failed to create ...")
CreateEnds(c, o) ==
    NetEnd(c, IF ~o.raised THEN "container"
              ELSE IF o.exc = "APIError" THEN "RuntimeError"
              ELSE o.exc)

\* create_accessory up to the answer of containers.get(service_name): a
\* running container is returned, a stopped one is to be started, NotFound
\* goes on to the network and the image
AccLookup(p, key) ==
    /\ callers[p].pc = "idle"
    /\ LET service_name == get_service_name(accessories, key)
           c == [Idle EXCEPT !.name = key]
       IN  \/ \E o \in CallFails(Runtime, "containers.get", service_name, <<>>) :
                 callers' = [callers EXCEPT ![p] = CreateEnds(c, o)]
           \/ /\ Exists(Runtime, service_name)
              /\ callers' = [callers EXCEPT ![p] =
                    IF IsRunning(Runtime, service_name)
                    THEN CreateEnds([c EXCEPT !.seen = "present"],
                                    Returned(Runtime, service_name, <<>>))
                    ELSE [c EXCEPT !.seen = "present", !.pc = "start"]]
           \/ /\ ~Exists(Runtime, service_name)
              /\ callers' = [callers EXCEPT ![p] =
                    [c EXCEPT !.seen = "absent", !.pc = "prepare"]]
    /\ UNCHANGED <<accessories, containers, networks, last, prev, trace>>

\* existing_container.start() on the container the lookup found stopped:
\* NotFound, which the runtime answers too when the container is gone by
\* now, goes on as the NotFound of the lookup does
AccStart(p) ==
    /\ callers[p].pc = "start"
    /\ LET c == callers[p]
           service_name == get_service_name(accessories, c.name)
       IN  \/ /\ \E o \in CallFails(Runtime, "start", service_name, <<>>) :
                    callers' = [callers EXCEPT ![p] = CreateEnds(c, o)]
              /\ UNCHANGED containers
           \/ /\ callers' = [callers EXCEPT ![p].pc = "prepare"]
              /\ UNCHANGED containers
           \/ /\ Exists(Runtime, service_name)
              /\ containers' = [containers EXCEPT ![service_name] = "running"]
              /\ callers' = [callers EXCEPT ![p] =
                    CreateEnds(c, Returned(Runtime, service_name, <<>>))]
    /\ UNCHANGED <<accessories, networks, last, prev, trace>>

\* ensure_network(client, config.network) and pull_images([config.image])
AccPrepare(p) ==
    /\ callers[p].pc = "prepare"
    /\ LET c == callers[p]
       IN  \E n \in ensure_network(Runtime, AccNetwork, <<>>) :
             \E o \in (IF n.raised THEN {n}
                       ELSE pull_images(n.rt, Image(c.name), n.log)) :
                /\ networks' = o.rt.networks
                /\ callers' = [callers EXCEPT ![p] =
                      IF o.raised THEN CreateEnds(c, o)
                      ELSE [c EXCEPT !.pc = "run"]]
    /\ UNCHANGED <<accessories, containers, last, prev, trace>>

\* containers.run(name=service_name, ...), and the end of the call
AccRun(p) ==
    /\ callers[p].pc = "run"
    /\ LET c == [callers[p] EXCEPT !.creates = @ + 1]
           service_name == get_service_name(accessories, c.name)
       IN  \E o \in RunContainer(Runtime, service_name, <<>>) :
              /\ trace' = Append(trace, Call(p, "containers.run", service_name,
                                             o.log[1].res))
              /\ containers' = o.rt.containers
              /\ callers' = [callers EXCEPT ![p] = CreateEnds(c, o)]
    /\ UNCHANGED <<accessories, networks, last, prev>>

\* what prev keeps of the operation that ran last
Summary(op) ==
    IF op.op = "create_accessory"
    THEN [key |-> op.arg, raised |-> op.raised, created |-> Created(op.log)]
    ELSE NoPrev

\* ----------------------------------------------------------- specifications

\* order() alone, on every configuration of up to MaxNodes accessories: every
\* dependency names a key (AppConfig.validate_dependencies), cycles included;
\* depends_on is kept as the set sort_by_dependencies makes of the list
InitOrder ==
    /\ \E n \in 0..MaxNodes :
         \E d \in [Range(KeysOf(n)) -> SUBSET Range(KeysOf(n))] :
            accessories = Config(n, d, [k \in Range(KeysOf(n)) |-> None])
    /\ containers = [c \in CNames |-> "absent"]
    /\ networks = {}
    /\ last = NoOp
    /\ prev = NoPrev
    /\ NoCallers
    /\ Connected

NextOrder == Order /\ UNCHANGED <<racing, session>>

SpecOrder == InitOrder /\ [][NextOrder]_vars

\* creation, on every configuration of up to NumAcc accessories (every
\* dependency names a key, cycles included) and every state earlier
\* invocations may have left the runtime in
InitCreate ==
    /\ \E n \in 0..NumAcc :
         \E d \in [Range(KeysOf(n)) -> SUBSET Range(KeysOf(n))] :
            \E s \in ServiceChoices(Range(KeysOf(n))) :
               accessories = Config(n, d, s)
    /\ containers \in ContainerStates(accessories, {})
    /\ networks \in SUBSET {AccNetwork}
    /\ last = NoOp
    /\ prev = NoPrev
    /\ NoCallers
    /\ Connected

\* one invocation: a single creation command against the runtime it finds
NextCreate ==
    /\ last.op = "none"
    /\ \/ CreateAll
       \/ \E key \in Range(accessories.keys) : CreateAccessory(key)
    /\ UNCHANGED <<prev, racing, session>>

SpecCreate == InitCreate /\ [][NextCreate]_vars

\* createOrReuse called again and again, with the runtime changing out of
\* band in between or not
InitIdem ==
    /\ \E n \in 1..NumAcc :
         \E s \in ServiceChoices(Range(KeysOf(n))) :
            accessories = Config(n, [k \in Range(KeysOf(n)) |-> {}], s)
    /\ containers \in ContainerStates(accessories, {})
    /\ networks \in SUBSET {AccNetwork}
    /\ last = NoOp
    /\ prev = NoPrev
    /\ NoCallers
    /\ Connected

NextIdem ==
    /\ \/ \E key \in Range(accessories.keys) : CreateAccessory(key)
       \/ RuntimeChanges
    /\ prev' = Summary(last)
    /\ UNCHANGED <<racing, session>>

SpecIdem == InitIdem /\ [][NextIdem]_vars

\* the names a stop or restart request may hold: the service names of the
\* configuration, the empty name, the name of a container outside it
ReqNames(cfg) == ResolvedNames(cfg) \cup {"", Ghost}

Requests(cfg) == UNION {[1..n -> ReqNames(cfg)] : n \in 0..MaxReq}

\* stop and restart, one command against the runtime it finds
InitStop ==
    /\ \E n \in 0..NumAcc :
         \E s \in ServiceChoices(Range(KeysOf(n))) :
            accessories = Config(n, [k \in Range(KeysOf(n)) |-> {}], s)
    /\ containers \in ContainerStates(accessories, {Ghost})
    /\ networks = {}
    /\ last = NoOp
    /\ prev = NoPrev
    /\ NoCallers
    /\ Connected

NextStop ==
    /\ last.op = "none"
    /\ \E names \in Requests(accessories) : \E force, raise_errors \in BOOLEAN :
          \/ StopAccessories(names, force, raise_errors)
          \/ RestartAccessories(names, force, raise_errors)
    /\ UNCHANGED <<prev, racing, session>>

SpecStop == InitStop /\ [][NextStop]_vars

\* reboot, one command against the runtime it finds: of one accessory, of a
\* name the configuration does not have, or of all.  The network is there:
\* reboot is for accessories that were brought up before
InitReboot ==
    /\ \E n \in 0..NumAcc :
         \E s \in ServiceChoices(Range(KeysOf(n))) :
            accessories = Config(n, [k \in Range(KeysOf(n)) |-> {}], s)
    /\ containers \in ContainerStates(accessories, {})
    /\ networks = {AccNetwork}
    /\ last = NoOp
    /\ prev = NoPrev
    /\ NoCallers
    /\ Connected

NextReboot ==
    /\ last.op = "none"
    /\ \/ \E name \in Range(accessories.keys) \cup {Ghost} : RebootSingle(name)
       \/ \E force \in BOOLEAN : RebootAll(force)
    /\ UNCHANGED <<prev, racing, session>>

SpecReboot == InitReboot /\ [][NextReboot]_vars

\* deployApplication against the runtime earlier deployments left: the
\* application container and the containers of the accessories in any state
InitDeploy ==
    /\ \E n \in 0..NumAcc :
         \E s \in ServiceChoices(Range(KeysOf(n))) :
            accessories = Config(n, [k \in Range(KeysOf(n)) |-> {}], s)
    /\ \E app \in {"absent", "running", "exited"} :
          \E c \in ContainerStates(accessories, {}) :
             containers = [c EXCEPT ![AppService] = app]
    /\ networks \in SUBSET {AccNetwork}
    /\ last = NoOp
    /\ prev = NoPrev
    /\ NoCallers
    /\ Connected

NextDeploy ==
    /\ last.op = "none"
    /\ DeployApp
    /\ UNCHANGED <<prev, racing, session>>

SpecDeploy == InitDeploy /\ [][NextDeploy]_vars

\* the remote endpoints of a configuration: none, or one the schema accepts
Remotes == {"", "ssh://user@host"}

\* a manager fresh from its constructor, with any builder configuration:
\* connect(), and the operations that need the handle, before and after it
InitConnect ==
    /\ accessories = Config(0, <<>>, <<>>)
    /\ containers = [c \in CNames |-> "absent"]
    /\ networks = {}
    /\ last = NoOp
    /\ prev = NoPrev
    /\ NoCallers
    /\ builder \in [local : BOOLEAN, remote : Remotes]
    /\ docker_client = None

NextConnect ==
    /\ \/ Connect
       \/ CheckDockerVersion
       \/ \E image_name \in {AppImage, ""} : DeleteImage(image_name)
    /\ UNCHANGED <<prev, racing>>

SpecConnect == InitConnect /\ [][NextConnect]_vars

\* ensure_network called by invocations that run side by side, and again
\* after a call ended
InitNet ==
    /\ accessories = Config(0, <<>>, <<>>)
    /\ containers = [c \in CNames |-> "absent"]
    /\ networks \in SUBSET NetworkNames
    /\ last = NoOp
    /\ prev = NoPrev
    /\ NoCallers
    /\ Connected

NextNet ==
    /\ \E p \in Callers :
          \/ \E network_name \in NetworkNames : NetList(p, network_name)
          \/ NetCreate(p)
    /\ UNCHANGED session

SpecNet == InitNet /\ [][NextNet]_vars

\* the service an accessory may be given: none, its own, the default name of
\* the first key, the application's
ServiceNames(app, k) == {None, ExplicitService(k), "asantiya-" \o AllKeys[1], app}

\* the dependency lists of the data: no more than two names each, of
\* accessories there are or of none
DependsOnLists(K) ==
    LET D == K \cup {Missing}
    IN  {<<>>} \cup {<<x>> : x \in D} \cup {<<x, y>> : x \in D, y \in D}

\* the data a deploy.yaml gives AppConfig: any dependency lists with no
\* service set, or no dependencies with any services set
ConfigData ==
    UNION { LET K == Range(KeysOf(n))
            IN  { [keys |-> KeysOf(n), depends_on |-> d,
                   service |-> [k \in K |-> None], app |-> app] :
                    d \in [K -> DependsOnLists(K)], app \in AppServices }
                \cup
                UNION { { [keys |-> KeysOf(n),
                           depends_on |-> [k \in K |-> <<>>],
                           service |-> s, app |-> app] :
                            s \in { f \in [K -> UNION {ServiceNames(app, k) : k \in K}] :
                                       \A k \in K : f[k] \in ServiceNames(app, k) } }
                        : app \in AppServices }
            : n \in 0..NumAcc }

\* the container names of the runtime the loaded configurations meet
ListedNames == CNames \cup AppServices

\* a configuration is loaded, and then asked for a name or for the status
\* list, against the runtime earlier invocations left
InitLoad ==
    /\ accessories \in ConfigData
    /\ \E up \in SUBSET {get_service_name(accessories, k) :
                            k \in Range(accessories.keys)} :
          \E status \in {"running", "exited"} :
             containers = [c \in ListedNames |->
                             IF c \in up THEN status ELSE "absent"]
    /\ networks = {}
    /\ last = NoOp
    /\ prev = NoPrev
    /\ NoCallers
    /\ Connected

NextLoad ==
    /\ \/ LoadConfig
       \/ \E key \in Range(accessories.keys) : GetServiceName(key)
       \/ ListConfigured
    /\ UNCHANGED <<prev, racing, session>>

SpecLoad == InitLoad /\ [][NextLoad]_vars

\* the image names pull_images is asked for: two images, and a blank
ImageNames == {Image(AllKeys[1]), Image(AllKeys[2]), " "}

\* pull_images on any list of up to MaxImages names; which images are there
\* is the runtime's answer to each inspect
InitPull ==
    /\ accessories = Config(0, <<>>, <<>>)
    /\ containers = [c \in CNames |-> "absent"]
    /\ networks = {}
    /\ last = NoOp
    /\ prev = NoPrev
    /\ NoCallers
    /\ Connected

NextPull ==
    /\ last.op = "none"
    /\ \E n \in 0..MaxImages : \E images \in [1..n -> ImageNames] :
          PullImages(images)
    /\ UNCHANGED <<prev, racing, session>>

SpecPull == InitPull /\ [][NextPull]_vars

\* the configurations in which an accessory depends on no more than one
\* accessory: chains, trees and cycles
SingleDependency(n) ==
    LET K == Range(KeysOf(n))
    IN  {Config(n, d, [k \in K |-> None]) :
            d \in [K -> {{}} \cup {{x} : x \in K}]}

\* a request that names every accessory, in configuration order
EveryAccessory(cfg) ==
    [i \in 1..Len(cfg.keys) |-> get_service_name(cfg, cfg.keys[i])]

\* the configuration as a command found it, and the calls made since
Found(cfg, calls) == [config |-> cfg, calls |-> calls]

\* one operation of the reconciler on a configuration with dependencies,
\* against containers that are all absent, all running or all stopped, and
\* order() once more after it
InitFrame ==
    /\ \E n \in 0..NumAcc : accessories \in SingleDependency(n)
    /\ \E status \in {"absent", "running", "exited"} :
          containers = [c \in CNames |->
                          IF c \in ResolvedNames(accessories) THEN status
                          ELSE "absent"]
    /\ networks = {AccNetwork}
    /\ last = NoOp
    /\ prev = NoPrev
    /\ NoCallers
    /\ Connected

NextFrame ==
    /\ \/ /\ last.op = "none"
          /\ prev' = Found(accessories, 1)
          /\ \/ OrderNow
             \/ CreateAll
             \/ \E force \in BOOLEAN :
                   StopAccessories(EveryAccessory(accessories), force, FALSE)
             \/ \E force \in BOOLEAN :
                   RestartAccessories(EveryAccessory(accessories), force, FALSE)
             \/ \E name \in Range(accessories.keys) : RebootSingle(name)
             \/ DeployApp
       \/ /\ last.op # "none"
          /\ prev.calls = 1
          /\ prev' = Found(prev.config, 2)
          /\ OrderNow
    /\ UNCHANGED <<racing, session>>

SpecFrame == InitFrame /\ [][NextFrame]_vars

\* the runtime as a call found it
FoundRuntime(rt) == [containers |-> rt.containers, networks |-> rt.networks]

\* createOrReuse, one call on one accessory, against the runtime earlier
\* invocations left: its container absent, running or stopped, the network
\* there or not
InitReuse ==
    /\ \E n \in 1..NumAcc :
         \E s \in ServiceChoices(Range(KeysOf(n))) :
            accessories = Config(n, [k \in Range(KeysOf(n)) |-> {}], s)
    /\ containers \in ContainerStates(accessories, {})
    /\ networks \in SUBSET {AccNetwork}
    /\ last = NoOp
    /\ prev = NoPrev
    /\ NoCallers
    /\ Connected

NextReuse ==
    /\ last.op = "none"
    /\ \E key \in Range(accessories.keys) : CreateAccessory(key)
    /\ prev' = FoundRuntime(Runtime)
    /\ UNCHANGED <<racing, session>>

SpecReuse == InitReuse /\ [][NextReuse]_vars

\* stop of one configured accessory, against the runtime earlier invocations
\* left: its container absent, running or stopped
InitHalt ==
    /\ \E n \in 1..NumAcc :
         \E s \in ServiceChoices(Range(KeysOf(n))) :
            accessories = Config(n, [k \in Range(KeysOf(n)) |-> {}], s)
    /\ containers \in ContainerStates(accessories, {})
    /\ networks \in SUBSET {AccNetwork}
    /\ last = NoOp
    /\ prev = NoPrev
    /\ NoCallers
    /\ Connected

NextHalt ==
    /\ last.op = "none"
    /\ \E name \in ResolvedNames(accessories) : \E force, raise_errors \in BOOLEAN :
          StopAccessory(name, force, raise_errors)
    /\ prev' = FoundRuntime(Runtime)
    /\ UNCHANGED <<racing, session>>

SpecHalt == InitHalt /\ [][NextHalt]_vars

\* the requests that name one container, or two different ones: of
\* accessories, or of none
DistinctRequests(cfg) ==
    LET N == ResolvedNames(cfg) \cup {Ghost}
    IN  {<<x>> : x \in N} \cup {s \in [1..2 -> N] : s[1] # s[2]}

\* restart, one command against the runtime earlier invocations left
InitRestart ==
    /\ \E n \in 1..NumAcc :
         \E s \in ServiceChoices(Range(KeysOf(n))) :
            accessories = Config(n, [k \in Range(KeysOf(n)) |-> {}], s)
    /\ containers \in ContainerStates(accessories, {Ghost})
    /\ networks = {AccNetwork}
    /\ last = NoOp
    /\ prev = NoPrev
    /\ NoCallers
    /\ Connected

NextRestart ==
    /\ last.op = "none"
    /\ \E names \in DistinctRequests(accessories) :
          \E force, raise_errors \in BOOLEAN :
             RestartAccessories(names, force, raise_errors)
    /\ prev' = FoundRuntime(Runtime)
    /\ UNCHANGED <<racing, session>>

SpecRestart == InitRestart /\ [][NextRestart]_vars

\* the step deploy_app, remove_app and the application's stop command share:
\* stop_accessories(list_accessory_services(), force), forced in the first
\* two, against the runtime earlier invocations left
InitStopAll ==
    /\ \E n \in 0..NumAcc :
         \E s \in ServiceChoices(Range(KeysOf(n))) :
            accessories = Config(n, [k \in Range(KeysOf(n)) |-> {}], s)
    /\ containers \in ContainerStates(accessories, {})
    /\ networks \in SUBSET {AccNetwork}
    /\ last = NoOp
    /\ prev = NoPrev
    /\ NoCallers
    /\ Connected

NextStopAll ==
    /\ last.op = "none"
    /\ \E force \in BOOLEAN :
          StopAccessories(list_accessory_services(accessories), force, FALSE)
    /\ prev' = FoundRuntime(Runtime)
    /\ UNCHANGED <<racing, session>>

SpecStopAll == InitStopAll /\ [][NextStopAll]_vars

\* the names a user may ask for: the resolved names of the accessories,
\* their keys, and the name of a container no accessory has
AskedNames(cfg) == ResolvedNames(cfg) \cup Range(cfg.keys) \cup {Ghost}

\* stop and logs by name, one command against the runtime earlier
\* invocations left, a container of no accessory included
InitNamed ==
    /\ \E n \in 0..NumAcc :
         \E s \in ServiceChoices(Range(KeysOf(n))) :
            accessories = Config(n, [k \in Range(KeysOf(n)) |-> {}], s)
    /\ containers \in ContainerStates(accessories, {Ghost})
    /\ networks = {AccNetwork}
    /\ last = NoOp
    /\ prev = NoPrev
    /\ NoCallers
    /\ Connected

NextNamed ==
    /\ last.op = "none"
    /\ \E name \in AskedNames(accessories) :
          \/ \E force, raise_errors \in BOOLEAN :
                StopAccessory(name, force, raise_errors)
          \/ ShowAccessoryLogs(name)
          \/ FindAccessoryByName(name)
    /\ prev' = FoundRuntime(Runtime)
    /\ UNCHANGED <<racing, session>>

SpecNamed == InitNamed /\ [][NextNamed]_vars

\* what an earlier run of order() came to
EarlierRun(op) == [raised |-> op.raised, value |-> op.value]

\* order() run twice, by two processes, on the same configuration of up to
\* MaxNodes accessories, cycles included
InitTwice ==
    /\ \E n \in 0..MaxNodes :
         \E d \in [Range(KeysOf(n)) -> SUBSET Range(KeysOf(n))] :
            accessories = Config(n, d, [k \in Range(KeysOf(n)) |-> None])
    /\ containers = [c \in CNames |-> "absent"]
    /\ networks = {}
    /\ last = NoOp
    /\ prev = NoPrev
    /\ NoCallers
    /\ Connected

NextTwice ==
    /\ \/ /\ last.op = "none"
          /\ OrderRun(1)
          /\ UNCHANGED prev
       \/ /\ last.op = "sort_by_dependencies"
          /\ last.arg = 1
          /\ OrderRun(2)
          /\ prev' = EarlierRun(last)
    /\ UNCHANGED <<racing, session>>

SpecTwice == InitTwice /\ [][NextTwice]_vars

\* the reboot command from its start: the manager is not connected yet, the
\* configuration names the daemon over SSH or the local one, the accessories
\* are all up or all gone
InitCommand ==
    /\ \E n \in 0..NumAcc :
         \E s \in ServiceChoices(Range(KeysOf(n))) :
            accessories = Config(n, [k \in Range(KeysOf(n)) |-> {}], s)
    /\ \E status \in {"absent", "running"} :
          containers = [c \in CNames |->
                           IF c \in ResolvedNames(accessories) THEN status
                           ELSE "absent"]
    /\ networks = {AccNetwork}
    /\ last = NoOp
    /\ prev = NoPrev
    /\ NoCallers
    /\ builder \in [local : BOOLEAN, remote : {"ssh://user@host"}]
    /\ docker_client = None

NextCommand ==
    /\ last.op = "none"
    /\ \E name \in Range(accessories.keys) \cup {Ghost, "all"} :
          \E force \in BOOLEAN : RebootCommand(name, force)
    /\ UNCHANGED <<prev, racing>>

SpecCommand == InitCommand /\ [][NextCommand]_vars

\* what prev keeps of a createOrReuse: the key, and the container it came to
CreatedAs(op) == [key |-> op.arg, raised |-> op.raised, name |-> op.value]

\* createOrReuse of an accessory, then the reboot of that accessory or the
\* stop of every accessory service, against the runtime the first left
InitAgree ==
    /\ \E n \in 1..NumAcc :
         \E s \in ServiceChoices(Range(KeysOf(n))) :
            accessories = Config(n, [k \in Range(KeysOf(n)) |-> {}], s)
    /\ containers \in ContainerStates(accessories, {})
    /\ networks = {AccNetwork}
    /\ last = NoOp
    /\ prev = NoPrev
    /\ NoCallers
    /\ Connected

NextAgree ==
    /\ \/ /\ last.op = "none"
          /\ \E key \in Range(accessories.keys) : CreateAccessory(key)
          /\ UNCHANGED prev
       \/ /\ last.op = "create_accessory"
          /\ \/ RebootSingle(last.arg)
             \/ \E force \in BOOLEAN :
                   StopAccessories(list_accessory_services(accessories), force, FALSE)
          /\ prev' = CreatedAs(last)
    /\ UNCHANGED <<racing, session>>

SpecAgree == InitAgree /\ [][NextAgree]_vars

\* createOrReuse by invocations that run side by side, one call each, for
\* any accessory of the configuration, against the runtime they find
InitRace ==
    /\ \E n \in 1..NumAcc :
         \E s \in ServiceChoices(Range(KeysOf(n))) :
            accessories = Config(n, [k \in Range(KeysOf(n)) |-> {}], s)
    /\ containers \in ContainerStates(accessories, {})
    /\ networks \in SUBSET {AccNetwork}
    /\ last = NoOp
    /\ prev = NoPrev
    /\ NoCallers
    /\ Connected

NextRace ==
    /\ \E p \in Callers :
          \/ \E key \in Range(accessories.keys) : AccLookup(p, key)
          \/ AccStart(p)
          \/ AccPrepare(p)
          \/ AccRun(p)
    /\ UNCHANGED session

SpecRace == InitRace /\ [][NextRace]_vars

\* ------------------------------------------------------------------ claims

\* the accessories a set of accessories depends on, in at most n steps
RECURSIVE DependenciesWithin(_, _, _)
DependenciesWithin(cfg, S, n) ==
    IF n = 0 THEN S
    ELSE DependenciesWithin(cfg, S \cup UNION {cfg.depends_on[x] : x \in S}, n - 1)

\* the accessories key depends on, directly or not
AllDependencies(cfg, key) ==
    DependenciesWithin(cfg, cfg.depends_on[key], Len(cfg.keys))

HasCycle(cfg) == \E k \in Range(cfg.keys) : k \in AllDependencies(cfg, k)

\* s holds every element of S exactly once
IsPermutation(s, S) ==
    /\ Len(s) = Cardinality(S)
    /\ Range(s) = S

\* in s every accessory comes after all the accessories it depends on
DependenciesFirst(cfg, s) ==
    \A i \in 1..Len(s) :
        \A d \in cfg.depends_on[s[i]] : \E j \in 1..(i - 1) : s[j] = d

OrderRan == last.op = "sort_by_dependencies"

\* C1: on an acyclic dependency graph order() returns a permutation of all
\* the accessory names, each once, every name after all the names it depends on
C1_OrderIsTopological ==
    (OrderRan /\ ~HasCycle(accessories)) =>
        /\ ~last.raised
        /\ IsPermutation(last.value, Range(accessories.keys))
        /\ DependenciesFirst(accessories, last.value)

\* C1 witness: {db, cache, app: depends on db and cache} is ordered, app last
C1_Witness ==
    /\ OrderRan
    /\ accessories.keys = <<"db", "cache", "app">>
    /\ accessories.depends_on =
           [k \in {"db", "cache", "app"} |->
               IF k = "app" THEN {"db", "cache"} ELSE {}]
    /\ last.value = <<"cache", "db", "app">>

\* C2: on a dependency graph with a cycle (a self dependency included)
\* order() raises the cycle error and returns no ordering
C2_CycleRaises ==
    (OrderRan /\ HasCycle(accessories)) =>
        /\ last.raised
        /\ last.exc = "ValueError"
        /\ last.value = <<>>

\* C2 witness: order() raised on a graph whose cycle leaves an accessory
\* outside it ready, so that a partial ordering was there to return
C2_Witness ==
    /\ OrderRan
    /\ last.raised
    /\ \E k \in Range(accessories.keys) : k \in accessories.depends_on[k]
    /\ \E k \in Range(accessories.keys) : accessories.depends_on[k] = {}
    /\ \E k \in Range(accessories.keys) :
           /\ k \notin accessories.depends_on[k]
           /\ Cardinality(accessories.depends_on[k]) = 1
           /\ k \in AllDependencies(accessories, k)

\* ---- createAll

CreateAllRan == last.op = "create_all_accessories"

\* the events of a log that end a create_accessory by an exception
Failures(log) ==
    {i \in 1..Len(log) : log[i].call = "create_accessory" /\ log[i].res = "raise"}

\* the accessories create_accessory was called for
Attempted(log) ==
    {log[i].name : i \in {j \in 1..Len(log) :
                            log[j].call = "create_accessory" /\ log[j].res = "enter"}}

\* the names under which the runtime calls for an accessory are logged
NamesOf(cfg, key) == {key, get_service_name(cfg, key), Image(key)}

\* the accessories after position i of an ordering
After(s, key) ==
    {s[j] : j \in {n \in 1..Len(s) : \E m \in 1..(n - 1) : s[m] = key}}

\* C3: createAll is fail-fast: once the creation of an accessory fails no
\* runtime call is made for any later accessory of the dependency order, and
\* the operation ends with an error
C3_CreateAllFailFast ==
    CreateAllRan =>
        \A i \in Failures(last.log) :
            /\ last.raised
            /\ i = Len(last.log)
            /\ \A k \in After(sort_by_dependencies(accessories).value,
                              last.log[i].name) :
                  \A j \in 1..Len(last.log) :
                      last.log[j].name \notin NamesOf(accessories, k)

\* C3 witness: over [db, cache depends on db] the creation of db failed in the
\* runtime's create, and cache, which has no container, was not attempted
C3_Witness ==
    /\ CreateAllRan
    /\ last.raised
    /\ accessories.keys = <<"db", "cache">>
    /\ accessories.depends_on = [k \in {"db", "cache"} |->
                                    IF k = "cache" THEN {"db"} ELSE {}]
    /\ \E i \in 1..Len(last.log) :
          last.log[i].call = "containers.run" /\ last.log[i].res = "APIError"
    /\ Attempted(last.log) = {"db"}
    /\ containers[get_service_name(accessories, "cache")] = "absent"

\* C4: in a run of createAll create_accessory is entered for an accessory only
\* after it has returned for every accessory of its depends_on
C4_DependenciesCreatedFirst ==
    CreateAllRan =>
        \A i \in 1..Len(last.log) :
            (last.log[i].call = "create_accessory" /\ last.log[i].res = "enter") =>
                \A d \in accessories.depends_on[last.log[i].name] :
                    \E j \in 1..(i - 1) :
                        last.log[j] = Ev("create_accessory", d, "return")

\* C4 witness: db, first in the configuration, depends on cache, and both were
\* created
C4_Witness ==
    /\ CreateAllRan
    /\ ~last.raised
    /\ accessories.keys = <<"db", "cache">>
    /\ accessories.depends_on = [k \in {"db", "cache"} |->
                                    IF k = "db" THEN {"cache"} ELSE {}]
    /\ Created(last.log) = 2

\* createAll was ended by the failure of an accessory
AbortedOnItem == CreateAllRan /\ last.raised /\ Failures(last.log) # {}

FailedItem == last.log[CHOOSE i \in Failures(last.log) : TRUE].name

NeverAttempted == Range(accessories.keys) \ Attempted(last.log)

\* the messages create_accessory may raise for an accessory
CreateMessages(cfg, key) ==
    { <<"Failed to create ", get_service_name(cfg, key), ": ", Explanation>>,
      <<"Network creation failed: ", Explanation>>,
      <<ErrorText>> }

CreatedTwice == last.op = "create_accessory" /\ prev.key = last.arg

Calls(log, call) == {i \in 1..Len(log) : log[i].call = call}

\* C6: createOrReuse is idempotent: two calls in a row for the same accessory
\* make the runtime create at most one container in total, and when the first
\* call returned, the second finds its container and asks for no creation
C6_CreateIdempotent ==
    CreatedTwice =>
        /\ prev.created + Created(last.log) <= 1
        /\ ~prev.raised =>
              /\ Calls(last.log, "containers.run") = {}
              /\ \A i \in Calls(last.log, "containers.get") :
                    last.log[i].res # "NotFound"

\* C6 witness: the first call created the container of db, the second
\* returned that container and created nothing
C6_Witness ==
    /\ CreatedTwice
    /\ last.arg = "db"
    /\ ~prev.raised
    /\ prev.created = 1
    /\ ~last.raised
    /\ last.value = get_service_name(accessories, "db")
    /\ Created(last.log) = 0

\* ---- stop and restart

StopRan == last.op = "stop_accessories"

RestartRan == last.op = "restart_accessories"

\* the names an operation took up, in the order it did
RECURSIVE Entered(_, _)
Entered(log, call) ==
    IF log = <<>> THEN <<>>
    ELSE (IF log[1].call = call THEN <<log[1].name>> ELSE <<>>)
             \o Entered(Tail(log), call)

\* C7 as stated: stop and restart over N names return exactly N results, a
\* name requested twice giving two
C7_Original ==
    (StopRan \/ RestartRan) =>
        /\ ~last.raised
        /\ Len(last.value) = Len(last.arg.names)

\* one result for every distinct name requested
OnePerName(results, names) ==
    /\ DictKeys(results) = Range(names)
    /\ Len(results) = Cardinality(Range(names))

\* C7: stop returns exactly one result per distinct name requested (a name
\* requested twice has one result), however many items fail; restart does the
\* same whenever it returns, and it returns whenever raise_errors is false
C7_OneResultPerDistinctName ==
    /\ StopRan => ~last.raised /\ OnePerName(last.value, last.arg.names)
    /\ RestartRan =>
          /\ ~last.raised => OnePerName(last.value, last.arg.names)
          /\ ~last.arg.raise_errors => ~last.raised

\* C7 witness: stop of the same name twice, the container not found, gave one
\* result
C7_Witness ==
    /\ StopRan
    /\ Len(last.arg.names) = 2
    /\ last.arg.names[1] = last.arg.names[2]
    /\ last.arg.raise_errors
    /\ Len(last.value) = 1
    /\ ~last.value[1][2].ok

\* C8: stop is best-effort: stop_accessory is called for every name of the
\* request, in order, whatever happened to the names before it and whatever
\* force and raise_errors are
C8_StopAttemptsAll ==
    StopRan => Entered(last.log, "stop_accessory") = last.arg.names

\* C8 witness: with raise_errors the first name failed and the container of
\* the second was stopped after it
C8_Witness ==
    /\ StopRan
    /\ last.arg.raise_errors
    /\ Len(last.arg.names) = 2
    /\ last.arg.names[1] # last.arg.names[2]
    /\ ~DictGet(last.value, last.arg.names[1]).ok
    /\ \E i \in Calls(last.log, "stop") :
          last.log[i].name = last.arg.names[2] /\ last.log[i].res = "ok"

\* C9 as stated: restart never aborts: every name is taken up and the call
\* returns, whatever force_restart and raise_errors are
C9_Original ==
    RestartRan =>
        /\ ~last.raised
        /\ Entered(last.log, "restart_accessories") = last.arg.names

\* the items of a log whose container lookup or restart failed
FailedItems(log) ==
    {i \in 1..Len(log) :
        /\ log[i].call \in {"containers.get", "restart"}
        /\ log[i].res \in {"NotFound", "APIError", "Exception"}}

Occurrences(names, name) == Cardinality({p \in 1..Len(names) : names[p] = name})

\* C9: with raise_errors false restart is best-effort: every per-item error
\* becomes that item's result (the result of a name requested once) and every
\* name is taken up; with raise_errors
\* true the first item whose lookup or restart fails is raised and ends the
\* batch, the names after it untouched
C9_RestartBestEffortUnlessRaise ==
    RestartRan =>
        /\ ~last.arg.raise_errors =>
              /\ ~last.raised
              /\ Entered(last.log, "restart_accessories") = last.arg.names
              /\ \A i \in FailedItems(last.log) :
                    Occurrences(last.arg.names, last.log[i].name) = 1 =>
                        ~DictGet(last.value, last.log[i].name).ok
        /\ last.arg.raise_errors =>
              /\ last.raised <=> FailedItems(last.log) # {}
              /\ \A i \in FailedItems(last.log) : i = Len(last.log)
              /\ LET done == Entered(last.log, "restart_accessories")
                 IN  /\ Len(done) <= Len(last.arg.names)
                     /\ done = SubSeq(last.arg.names, 1, Len(done))
                     /\ ~last.raised => done = last.arg.names

\* C9 witness: without raise_errors the first name was not found and the
\* second was restarted
C9_Witness ==
    /\ RestartRan
    /\ ~last.arg.raise_errors
    /\ Len(last.arg.names) = 2
    /\ last.arg.names[1] # last.arg.names[2]
    /\ ~DictGet(last.value, last.arg.names[1]).ok
    /\ DictGet(last.value, last.arg.names[2]).ok
    /\ \E i \in FailedItems(last.log) : last.log[i].name = last.arg.names[1]
    /\ \E i \in Calls(last.log, "restart") : last.log[i].res = "ok"

\* C10 as stated: in a stop over two names, the name whose container is not
\* found gets an error saying not found, the name whose container was stopped
\* gets success
C10_Original ==
    (/\ StopRan
     /\ Len(last.arg.names) = 2
     /\ last.arg.names[1] # last.arg.names[2]
     /\ \E i \in Calls(last.log, "containers.get") :
           last.log[i].name = last.arg.names[1] /\ last.log[i].res = "NotFound"
     /\ \E i \in Calls(last.log, "stop") :
           last.log[i].name = last.arg.names[2] /\ last.log[i].res = "ok"
     /\ \A i \in 1..Len(last.log) : last.log[i].res \notin {"APIError", "Exception"})
    => /\ ~DictGet(last.value, last.arg.names[1]).ok
       /\ " not found" \in Range(DictGet(last.value, last.arg.names[1]).msg)
       /\ DictGet(last.value, last.arg.names[2]).ok

\* ---- explicit outcomes

\* the calls that change a container, and the answers that mean they did
Mutating(log, name) ==
    \E i \in 1..Len(log) :
        /\ log[i].name = name
        /\ log[i].call \in {"stop", "remove", "restart", "start", "containers.run"}
        /\ log[i].res \in {"ok", "APIError after create"}

\* C11 as stated: no operation silently no-ops: an item of a stop or restart
\* for which nothing in the runtime was changed (container already stopped,
\* no container, name of no configured accessory) is reported as an error or
\* as skipped, never as success, and a createOrReuse that changed nothing
\* does not report the container as created
C11_Original ==
    /\ ((StopRan \/ RestartRan) /\ ~last.raised) =>
          \A p \in 1..Len(last.arg.names) :
              (/\ Occurrences(last.arg.names, last.arg.names[p]) = 1
               /\ ~Mutating(last.log, last.arg.names[p]))
              => ~DictGet(last.value, last.arg.names[p]).ok
    /\ (last.op = "create_accessory" /\ ~last.raised) =>
          Mutating(last.log, get_service_name(accessories, last.arg))

\* ---- ensure_network

\* the positions of the trace where the runtime created the network
NetworksCreated(network_name) ==
    {i \in 1..Len(trace) :
        trace[i] = Call(trace[i].caller, "networks.create", network_name, "ok")}

\* the last runtime call of caller p
LastCallOf(p) ==
    LET mine == {i \in 1..Len(trace) : trace[i].caller = p}
    IN  trace[CHOOSE i \in mine : \A j \in mine : j <= i]

\* C12: ensure_network is idempotent: a call that finds the network listed
\* issues no create and returns, a call that finds it missing issues exactly
\* one; so over any number of calls the runtime creates a network of one name
\* at most once, and as long as the runtime answers every call they all
\* return success
C12_EnsureNetworkIdempotent ==
    /\ \A p \in Callers :
          callers[p].pc = "done" =>
              /\ callers[p].seen = "present" =>
                    callers[p].creates = 0 /\ callers[p].result = "success"
              /\ callers[p].seen = "absent" => callers[p].creates = 1
              /\ callers[p].creates <= 1
    /\ \A n \in NetworkNames : Cardinality(NetworksCreated(n)) <= 1
    /\ (\A i \in 1..Len(trace) : trace[i].res = "ok") =>
          \A p \in Callers : callers[p].pc = "done" => callers[p].result = "success"

\* C12 witness: a caller called twice in a row for a network that was not
\* there: the first call created it, the second found it and created nothing
C12_Witness ==
    \E p \in Callers : \E n \in NetworkNames :
        /\ trace = <<Call(p, "networks.list", n, "ok"),
                     Call(p, "networks.create", n, "ok"),
                     Call(p, "networks.list", n, "ok")>>
        /\ callers[p].pc = "done"
        /\ callers[p].seen = "present"
        /\ callers[p].creates = 0
        /\ callers[p].result = "success"

\* C13 as stated: of two callers that both found the network missing and both
\* issued the create, the one whose create is answered "already exists"
\* returns success
C13_Original ==
    \A p \in Callers :
        (/\ callers[p].pc = "done"
         /\ callers[p].seen = "absent"
         /\ LastCallOf(p).res = "already exists")
        => callers[p].result = "success"

\* ---- reboot

RebootRan == last.op = "reboot_single_accessory"

RebootAllRan == last.op = "reboot_all_accessories"

\* every call of the log was answered by the runtime without an error
Healthy(log) ==
    \A i \in 1..Len(log) :
        log[i].res \notin {"APIError", "Exception", "APIError after create"}

\* the position at which the log enters create_accessory, 0 when it does not
CreateEntered(log) ==
    IF \E i \in 1..Len(log) : log[i].call = "create_accessory" /\ log[i].res = "enter"
    THEN CHOOSE i \in 1..Len(log) :
             log[i].call = "create_accessory" /\ log[i].res = "enter"
    ELSE 0

\* C14 as stated: reboot(name) of a configured accessory, its service name
\* explicit or defaulted, is a teardown and recreate: against a runtime that
\* answers every call it succeeds, the container it leaves running under the
\* accessory's resolved name is one it created, and createOrReuse ran with no
\* container of that name left
C14_Original ==
    (/\ RebootRan
     /\ last.arg \in Range(accessories.keys)
     /\ Healthy(last.log))
    => /\ last.value.ok
       /\ CreateEntered(last.log) > 0
       /\ \E i \in Calls(last.log, "containers.run") :
             /\ i > CreateEntered(last.log)
             /\ last.log[i] = Ev("containers.run",
                                 get_service_name(accessories, last.arg), "ok")
       /\ IsRunning(Runtime, get_service_name(accessories, last.arg))

DeployRan == last.op = "deploy_app"

\* the stage of deploy_app an entry of its log belongs to
StageOf(e) ==
    CASE e.call = "stop_app_container" -> 1
      [] e.call \in {"stop_accessory", "stop_accessories"} -> 2
      [] e.call = "delete_image" -> 3
      [] e.call = "build_image_from_dockerfile" -> 4
      [] e.call \in {"create_accessory", "create_all_accessories"} -> 5
      [] e.call = "containers.run" -> 6

\* the entry that closes a stage
ClosesStage(e) ==
    e.call \in {"stop_app_container", "stop_accessories", "delete_image",
                "build_image_from_dockerfile", "create_all_accessories",
                "containers.run"}

\* C16: deploy_app runs its stages in the order stop and remove the application
\* container, force-stop the accessories, delete the image, build, createAll,
\* create the application container: no stage starts before every stage
\* ahead of it has returned, and the application container is asked for only
\* after the build returned the image and create_accessory returned for
\* every accessory
C16_DeployStagesInOrder ==
    DeployRan =>
        LET log == last.log IN
        /\ \A i, j \in 1..Len(log) : i < j => StageOf(log[i]) <= StageOf(log[j])
        /\ \A j \in 1..Len(log) :
              \A k \in 1..(StageOf(log[j]) - 1) :
                  \E i \in 1..(j - 1) :
                      /\ ClosesStage(log[i])
                      /\ StageOf(log[i]) = k
                      /\ log[i].res # "raise"
        /\ \A j \in Calls(log, "containers.run") :
              /\ \E i \in 1..(j - 1) :
                    log[i] = Ev("build_image_from_dockerfile", AppImage, "return")
              /\ \E i \in 1..(j - 1) :
                    log[i] = Ev("create_all_accessories", All, "return")
              /\ \A key \in Range(accessories.keys) :
                    \E i \in 1..(j - 1) : log[i] = Ev("create_accessory", key, "return")

\* C16 witness: a deployment over two accessories went through: six stages,
\* both accessories created, the application container running at the end
C16_Witness ==
    /\ DeployRan
    /\ ~last.raised
    /\ Len(accessories.keys) = 2
    /\ {StageOf(last.log[i]) : i \in 1..Len(last.log)} = 1..6
    /\ last.log[Len(last.log)] = Ev("containers.run", AppService, "ok")
    /\ IsRunning(Runtime, AppService)
    /\ \A key \in Range(accessories.keys) :
          IsRunning(Runtime, get_service_name(accessories, key))

\* a stage of deploy_app failed: a call inside it failed or it raised, or the
\* application container was not created
StageFailed(e) ==
    /\ ClosesStage(e)
    /\ \/ e.res \in {"failed", "raise"}
       \/ e.call = "containers.run" /\ e.res # "ok"

\* C17 as stated: in deploy_app the failure of any stage (stopping or removing
\* the application container, force-stopping an accessory, deleting the image,
\* the build, createAll, creating the application container) ends it: no
\* later stage runs and deploy_app raises
C17_Original ==
    DeployRan =>
        \A i \in 1..Len(last.log) :
            StageFailed(last.log[i]) =>
                /\ last.raised
                /\ \A j \in (i + 1)..Len(last.log) :
                      StageOf(last.log[j]) = StageOf(last.log[i])

\* ---- connect

ConnectRan == last.op = "connect"

\* the errors that say the connection failed
ConnectionErrors == {"ConnectionError", "DockerError"}

\* C18 as stated: connect() with local false and an empty remote endpoint
\* fails with a connection error, having asked for no transport and leaving
\* the handle as it was
C18_Original ==
    (/\ ConnectRan
     /\ ~builder.local
     /\ builder.remote = "")
    => /\ last.raised
       /\ last.exc \in ConnectionErrors
       /\ last.log = <<>>
       /\ docker_client = last.arg

\* a reported version below the minimum the runtime must have: of the
\* versions the daemon may report, the older
BelowMinimum(v) == v = "1.0.0"

\* the calls of a log that failed
FailedCalls(log) ==
    {i \in 1..Len(log) : log[i].res \in {"DockerException", "Exception"}}

\* C19 as stated: connect() returns the handle only after a ping and a version
\* query that succeeded, the version not below the minimum; when the
\* transport, the probe or the version query fails with whatever exception,
\* or the version is below the minimum, it fails with a connection error;
\* and no call is made twice
C19_Original ==
    ConnectRan =>
        LET log == last.log
            low == \E i \in Calls(log, "version") :
                       log[i].res = "ok" /\ BelowMinimum(log[i].name)
        IN  /\ ~last.raised =>
                  /\ last.value = Client
                  /\ \E i \in Calls(log, "ping") : log[i].res = "ok"
                  /\ \E i \in Calls(log, "version") : log[i].res = "ok"
                  /\ ~low
            /\ (FailedCalls(log) # {} \/ low) =>
                  last.raised /\ last.exc \in ConnectionErrors
            /\ \A i, j \in 1..Len(log) : log[i].call = log[j].call => i = j

\* C20 as stated: check_docker_version and delete_image on a manager that has
\* no handle yet fail with an error that says the Docker client is not
\* connected, and make no runtime call
C20_Original ==
    (\/ last.op = "check_docker_version" /\ last.arg = None
     \/ /\ last.op = "delete_image"
        /\ last.arg.client = None
        /\ last.arg.image_name # "")
    => /\ last.raised
       /\ "Docker client not connected. " \in Range(last.msg)
       /\ last.log = <<>>

\* ---- C21 .. C30

\* _get_service_name was asked for the name of an accessory
NameAsked == last.op = "_get_service_name"

\* the service configured for the accessory the name was asked of
AskedService == accessories.service[last.arg]

\* C21, as stated: the resolved name of an accessory is its service when one
\* is set, and <app>-<key> of the application's service name otherwise
C21_Original ==
    NameAsked =>
        last.value = IF AskedService # None THEN AskedService
                     ELSE accessories.app \o "-" \o last.arg

\* C21, amended: the resolved name of an accessory is its service when one is
\* set, and asantiya-<key> otherwise, whatever the application's service
\* name is: it is <app>-<key> only for an application named asantiya
C21_DefaultIsAsantiyaKey ==
    NameAsked =>
        /\ AskedService # None => last.value = AskedService
        /\ AskedService = None =>
              /\ last.value = "asantiya-" \o last.arg
              /\ (last.value = accessories.app \o "-" \o last.arg)
                    <=> (accessories.app = "asantiya")

C21_Witness ==
    /\ NameAsked
    /\ AskedService = None
    /\ accessories.app = "test-app"
    /\ last.value = "asantiya-" \o last.arg

\* the status list was made: containers.list answered
Listed ==
    /\ last.op = "list_configured_containers"
    /\ last.log = <<Ev("containers.list", None, "ok")>>

\* C22, as stated: the status list has one row per accessory, in
\* configuration order; the row of an accessory whose resolved name is the
\* name of a container carries that name and the container's status, the row
\* of any other accessory is "Not created" and carries the resolved name
C22_Original ==
    Listed =>
        /\ Len(last.value) = Len(accessories.keys)
        /\ \A i \in 1..Len(accessories.keys) :
              LET name == get_service_name(accessories, accessories.keys[i])
              IN  IF Exists(Runtime, name)
                  THEN /\ last.value[i].name = name
                       /\ last.value[i].status # "Not created"
                  ELSE last.value[i] = Row("Not created", name)

\* a dependency of the data names no accessory
Dangling(data) ==
    \E k \in Range(data.keys) :
        \E j \in 1..Len(data.depends_on[k]) :
            data.depends_on[k][j] \notin Range(data.keys)

\* C25: AppConfig accepts the data exactly when every dependency names an
\* accessory; data with a dangling dependency is rejected with a
\* ValidationError whose text names an accessory and a dependency of it that
\* is not defined, and no operation runs on a configuration with a dangling
\* dependency
C25_DanglingRejected ==
    /\ last.op = "AppConfig" =>
          /\ last.raised <=> Dangling(accessories)
          /\ last.raised =>
                /\ last.exc = "ValidationError"
                /\ \E k \in Range(accessories.keys) :
                      \E j \in 1..Len(accessories.depends_on[k]) :
                          /\ accessories.depends_on[k][j] \notin Range(accessories.keys)
                          /\ last.msg = <<"Accessory '", k, "' depends on '",
                                          accessories.depends_on[k][j],
                                          "' which is not defined">>
    /\ last.op \notin {"none", "AppConfig"} => ~Dangling(accessories)

C25_Witness ==
    /\ last.op = "AppConfig"
    /\ last.raised
    /\ Len(accessories.keys) = 2
    /\ last.msg = <<"Accessory '", accessories.keys[2], "' depends on '",
                    Missing, "' which is not defined">>

\* C26, as stated: in a configuration AppConfig accepts no two accessories
\* resolve to one container name, and none resolves to the name of the
\* application's container
C26_Original ==
    Loaded =>
        \A k \in Range(accessories.keys) :
            /\ get_service_name(accessories, k) # accessories.app
            /\ \A l \in Range(accessories.keys) \ {k} :
                  get_service_name(accessories, k) # get_service_name(accessories, l)

\* the images the inspect of the last pull_images found, or found missing
Inspected(res) ==
    {i \in 1..Len(last.log) : last.log[i] = Ev("images.get", last.log[i].name, res)}

\* C23: pull_images pulls an image if and only if its inspect just before
\* said ImageNotFound: a pull follows every such inspect and no other, an
\* image that is found is not pulled, and a pull_images that returns has
\* inspected each image of the list once, in order
C23_PullIffAbsent ==
    last.op = "pull_images" =>
        /\ \A i \in 1..Len(last.log) :
              last.log[i].call = "api.pull" =>
                  /\ i > 1
                  /\ last.log[i - 1] = Ev("images.get", last.log[i].name, "ImageNotFound")
        /\ \A i \in Inspected("ImageNotFound") :
              /\ i < Len(last.log)
              /\ last.log[i + 1].call = "api.pull"
              /\ last.log[i + 1].name = last.log[i].name
        /\ \A i \in Inspected("ok") :
              i < Len(last.log) => last.log[i + 1].call = "images.get"
        /\ ~last.raised =>
              LET gets == SelectSeq(last.log, LAMBDA e : e.call = "images.get")
              IN  [i \in 1..Len(gets) |-> gets[i].name] = last.arg

C23_Witness ==
    /\ last.op = "pull_images"
    /\ ~last.raised
    /\ Inspected("ok") # {}
    /\ Inspected("ImageNotFound") # {}
    /\ Cardinality({i \in 1..Len(last.log) : last.log[i].call = "api.pull"}) = 1

\* C24: order(), createAll, stop, restart, reboot and deployApplication leave
\* the configuration as they found it, the dependencies of every accessory
\* included, and order() called after any of them comes to what it comes to
\* on the configuration found
C24_ConfigurationUnchanged ==
    last.op # "none" =>
        /\ accessories = prev.config
        /\ prev.calls = 2 =>
              LET r == sort_by_dependencies(prev.config)
              IN  /\ last.op = "sort_by_dependencies"
                  /\ last.raised = r.raised
                  /\ last.value = r.value

C24_Witness ==
    /\ last.op = "sort_by_dependencies"
    /\ prev.calls = 2
    /\ ~last.raised
    /\ \E k \in Range(accessories.keys) : accessories.depends_on[k] # {}
    /\ \E c \in CNames : IsRunning(Runtime, c)

\* create_accessory ran on an accessory whose container was in one of the
\* states, and its lookup was answered
Reused(states) ==
    /\ last.op = "create_accessory"
    /\ prev.containers[get_service_name(accessories, last.arg)] \in states
    /\ \E i \in 1..Len(last.log) :
          /\ last.log[i].call = "containers.get"
          /\ last.log[i].res \in {"ok", "NotFound"}

\* the runtime calls of the last operation
CallsMade == {last.log[i].call : i \in 1..Len(last.log)} \ {"create_accessory"}

\* the calls that provision a network or an image, or create a container
Provisioning == {"networks.list", "networks.create", "images.get", "api.pull",
                 "containers.run"}

\* C27: create_accessory on an accessory whose container is running makes no
\* call but the lookup, leaves every container and network as it was and
\* returns that container
C27_RunningIsNoOp ==
    Reused({"running"}) =>
        /\ CallsMade = {"containers.get"}
        /\ containers = prev.containers
        /\ networks = prev.networks
        /\ ~last.raised
        /\ last.value = get_service_name(accessories, last.arg)

C27_Witness ==
    /\ Reused({"running"})
    /\ last.value = get_service_name(accessories, last.arg)
    /\ Len(accessories.keys) = 2
    /\ \E c \in CNames : containers[c] = "exited"

\* C28, as stated: create_accessory on an accessory whose container is there
\* and not running starts that container and returns it; it creates and
\* removes no container and provisions no network and no image
C28_Original ==
    Reused({"exited", "created"}) =>
        /\ CallsMade \cap Provisioning = {}
        /\ networks = prev.networks
        /\ \A c \in CNames : Exists(Runtime, c) <=> prev.containers[c] # "absent"
        /\ ~last.raised =>
              /\ last.value = get_service_name(accessories, last.arg)
              /\ IsRunning(Runtime, last.value)
              /\ "start" \in CallsMade

\* the first entry of the log of the last operation that is of one of the
\* calls, 0 when there is none
FirstCall(calls) ==
    IF \E i \in 1..Len(last.log) : last.log[i].call \in calls
    THEN CHOOSE i \in 1..Len(last.log) :
            /\ last.log[i].call \in calls
            /\ \A j \in 1..(i - 1) : last.log[j].call \notin calls
    ELSE 0

\* the entries of the log of the last operation, of some calls, that failed
FailedIn(calls) ==
    {i \in 1..Len(last.log) :
        /\ last.log[i].call \in calls
        /\ last.log[i].res \in {"APIError", "Exception"}}

\* C29: create_accessory on an accessory with no container calls the network,
\* then the image, then containers.run, each once the one before came to an
\* end without error; when the network or the image fails, containers.run
\* is not called, no container is created, the error is raised and every
\* other container is as it was
C29_NetworkImageThenRun ==
    Reused({"absent"}) =>
        LET net == FirstCall({"networks.list"})
            img == FirstCall({"images.get"})
            run == FirstCall({"containers.run"})
            name == get_service_name(accessories, last.arg)
        IN  /\ net # 0
            /\ img # 0 => net < img
            /\ run # 0 => img # 0 /\ img < run
            /\ run # 0 => FailedIn(Provisioning \ {"containers.run"}) = {}
            /\ FailedIn(Provisioning \ {"containers.run"}) # {} =>
                  /\ run = 0
                  /\ last.raised
                  /\ containers = prev.containers
            /\ \A c \in CNames \ {name} : containers[c] = prev.containers[c]
            /\ ~last.raised => IsRunning(Runtime, name) /\ last.value = name

C29_Witness ==
    /\ Reused({"absent"})
    /\ ~last.raised
    /\ "networks.create" \in CallsMade
    /\ "api.pull" \in CallsMade
    /\ IsRunning(Runtime, get_service_name(accessories, last.arg))

\* stop_accessory ran, with or without force, on an accessory whose container
\* was in the state
Halted(status, force) ==
    /\ last.op = "stop_accessory"
    /\ last.arg.force = force
    /\ prev.containers[last.arg.name] = status

\* the runtime answered every call of the last operation
Answered == FailedIn({"containers.get", "stop", "remove"}) = {}

CallsOn(name, call) ==
    {i \in 1..Len(last.log) : last.log[i].call = call /\ last.log[i].name = name}

\* restart_accessories came to the item of a name: its lookup was answered
RestartReached(name) ==
    /\ last.op = "restart_accessories"
    /\ \E i \in CallsOn(name, "containers.get") : last.log[i].res \in {"ok", "NotFound"}

\* the item of a name in the results of the last operation is an error, or
\* the operation raised
ItemIsError(name) ==
    \/ last.raised
    \/ /\ name \in DictKeys(last.value)
       /\ ~DictGet(last.value, name).ok

\* C31: restart_accessories, item by item.  No container is created or
\* removed and only restart is ever called on one.  A running container, and
\* with force a container that is not running, is restarted and ends running
\* when the runtime answers; a container that is not running is, without
\* force, left as it was, with a message in the results that is never
\* raised; a name with no container is an error and nothing changes for it
C31_RestartPerItem ==
    last.op = "restart_accessories" =>
        /\ \A c \in CNames : Exists(Runtime, c) <=> prev.containers[c] # "absent"
        /\ networks = prev.networks
        /\ \A i \in 1..Len(last.log) :
              last.log[i].call \in {"restart_accessories", "containers.get", "restart"}
        /\ \A i \in 1..Len(last.arg.names) :
              LET name == last.arg.names[i]
                  was == prev.containers[name]
                  restarted == \E j \in CallsOn(name, "restart") : last.log[j].res = "ok"
              IN  RestartReached(name) =>
                    /\ was = "running" \/ (was = "exited" /\ last.arg.force) =>
                          /\ CallsOn(name, "restart") # {}
                          /\ restarted => IsRunning(Runtime, name)
                          /\ ~restarted => containers[name] = was /\ ItemIsError(name)
                          /\ restarted /\ ~last.raised =>
                                DictGet(last.value, name) = Ok
                    /\ was = "exited" /\ ~last.arg.force =>
                          /\ CallsOn(name, "restart") = {}
                          /\ containers[name] = "exited"
                          /\ ~last.raised =>
                                DictGet(last.value, name)
                                   = Message(<<"Container ", name, " is not running">>)
                          /\ last.raised =>
                                last.msg # <<"Container ", name, " is not running">>
                    /\ was = "absent" =>
                          /\ CallsOn(name, "restart") = {}
                          /\ containers[name] = "absent"
                          /\ ItemIsError(name)

C31_Witness ==
    /\ last.op = "restart_accessories"
    /\ ~last.raised
    /\ Len(last.arg.names) = 2
    /\ last.arg.force
    /\ prev.containers[last.arg.names[1]] = "exited"
    /\ prev.containers[last.arg.names[2]] = "running"
    /\ IsRunning(Runtime, last.arg.names[1])
    /\ DictGet(last.value, last.arg.names[1]) = Ok

\* C32, as stated: once stop_accessories(list_accessory_services(), force)
\* is through, with every runtime call answered, no container of a configured
\* accessory runs, and with force none exists, whether the accessory sets its
\* service or leaves it to the default
C32_Original ==
    last.op = "stop_accessories" /\ ~last.raised /\ Answered =>
        \A k \in Range(accessories.keys) :
            LET name == get_service_name(accessories, k)
            IN  /\ ~IsRunning(Runtime, name)
                /\ last.arg.force => ~Exists(Runtime, name)

\* the build stage of the last deploy_app raised
BuildFailed ==
    /\ DeployRan
    /\ \E i \in 1..Len(last.log) :
          last.log[i] = Ev("build_image_from_dockerfile", AppImage, "raise")

\* C33, as stated: in every deploy_app whose build fails, the image was
\* deleted before the build, the operation raises with the application
\* container removed, and no accessory and no application container is
\* created after the failure
C33_Original ==
    BuildFailed =>
        /\ last.raised
        /\ \E i \in 1..Len(last.log) :
              /\ last.log[i] = Ev("delete_image", AppImage, "return")
              /\ \E j \in (i + 1)..Len(last.log) :
                    last.log[j].call = "build_image_from_dockerfile"
        /\ ~Exists(Runtime, AppService)
        /\ \A i \in 1..Len(last.log) : StageOf(last.log[i]) \notin {5, 6}

\* a name is the resolved name of an accessory of the configuration
Configured(name) ==
    \E k \in Range(accessories.keys) : name = get_service_name(accessories, k)

\* C34: _find_accessory_by_name gives the name back when it is the resolved
\* name of a configured accessory and None otherwise; stop_accessory and
\* show_accessory_logs make no runtime call for a name that is not, and
\* change nothing, and every call they make for one that is, is made on that
\* name
C34_OnlyConfiguredNames ==
    /\ last.op = "_find_accessory_by_name" =>
          last.value = IF Configured(last.arg.name) THEN last.arg.name ELSE None
    /\ last.op \in {"stop_accessory", "show_accessory_logs"} =>
          /\ ~Configured(last.arg.name) =>
                /\ Len(last.log) = 1
                /\ last.log[1] = Ev(last.op, last.arg.name, "enter")
                /\ containers = prev.containers
                /\ ~last.raised
          /\ \A i \in 1..Len(last.log) : last.log[i].name = last.arg.name
          /\ Configured(last.arg.name) =>
                \E i \in 1..Len(last.log) : last.log[i].call = "containers.get"

C34_Witness ==
    /\ last.op \in {"stop_accessory", "show_accessory_logs"}
    /\ last.arg.name = Ghost
    /\ IsRunning(Runtime, Ghost)
    /\ accessories.keys # <<>>

\* order() ran a second time on the configuration
RanTwice == last.op = "sort_by_dependencies" /\ last.arg = 2

\* C35: two runs of order() on the same configuration, gone through in the
\* same order, end alike: both raise, or both return the same sequence of
\* names, whichever names were ready together
C35_OrderDeterministic ==
    RanTwice =>
        /\ last.raised = prev.raised
        /\ last.value = prev.value

C35_Witness ==
    /\ RanTwice
    /\ ~last.raised
    /\ last.value = prev.value
    /\ Cardinality({k \in Range(accessories.keys) : accessories.depends_on[k] = {}}) >= 2
    /\ \E k \in Range(accessories.keys) : accessories.depends_on[k] # {}

\* the accessories order() could not place: those the while loop never
\* found ready
Residual(cfg) ==
    LET graph   == [k \in Range(cfg.keys) |-> cfg.depends_on[k]]
        no_deps == SelectSeq(cfg.keys, LAMBDA k : graph[k] = {})
    IN  Range(cfg.keys) \ Range(KahnLoop(cfg.keys, graph, no_deps, <<>>))

\* C36, as stated: the error order() raises on a cyclic graph names the
\* accessories that could not be placed, all of them and no other
C36_Original ==
    OrderRan /\ last.raised =>
        Range(last.msg) \cap Range(accessories.keys) = Residual(accessories)
\* C37 as the claim states it: the handle connect() obtained over SSH is
\* closed when the invocation ends, whether the operation succeeded, failed
\* or was cancelled; no invocation ends with its handle still open
Closed == "<closed DockerClient>"

HandleObtained ==
    /\ last.op = "reboot"
    /\ ~builder.local
    /\ Len(last.log) > 0
    /\ last.log[1] = Ev("docker.DockerClient", builder.remote, "ok")

C37_Original == HandleObtained => docker_client \in {None, Closed}
\* C38 as the claim states it: every operation resolves the container name
\* of an accessory by the same rule, so the container createOrReuse came to
\* is the one the reboot of that accessory looks up first, and one of the
\* names the list of all accessory services hands to stop
AfterCreate(op) ==
    /\ last.op = op
    /\ ~prev.raised

FirstLookup ==
    last.log[CHOOSE i \in 1..Len(last.log) :
                /\ last.log[i].call = "containers.get"
                /\ \A j \in 1..(i - 1) : last.log[j].call # "containers.get"].name

C38_Original ==
    /\ AfterCreate("reboot_single_accessory") => FirstLookup = prev.name
    /\ AfterCreate("stop_accessories") => prev.name \in Range(last.arg.names)
\* the teardown of reboot_single_accessory failed: the lookup, the stop or the
\* removal of the old container was answered with an error, before any
\* create_accessory
RemovalFailed ==
    \E i \in 1..Len(last.log) :
        /\ last.log[i].call \in {"containers.get", "stop", "remove"}
        /\ last.log[i].res \in {"APIError", "Exception", "NullResource"}
        /\ CreateEntered(last.log) = 0 \/ i < CreateEntered(last.log)

\* C39: reboot_single_accessory never raises; when the removal of the old
\* container fails, create_accessory is not entered, the runtime is asked to
\* create nothing and the answer is the message "Failed to reboot <name>: ...";
\* a name that is not a key of the configuration gets the message
\* "Accessory '<name>' not found in configuration" with no runtime call
C39_RebootStopsAtRemoval ==
    RebootRan =>
        /\ ~last.raised
        /\ RemovalFailed =>
              /\ CreateEntered(last.log) = 0
              /\ Calls(last.log, "containers.run") = {}
              /\ ~last.value.ok
              /\ SubSeq(last.value.msg, 1, 3) = <<"Failed to reboot ", last.arg, ": ">>
        /\ last.arg \notin Range(accessories.keys) =>
              /\ last.value =
                    Message(<<"Accessory '", last.arg, "' not found in configuration">>)
              /\ \A i \in 1..Len(last.log) :
                    last.log[i].call = "reboot_single_accessory"

\* C39 witness: the old container was found and stopped, and its removal
\* failed
C39_Witness ==
    /\ RebootRan
    /\ last.arg \in Range(accessories.keys)
    /\ \E i \in Calls(last.log, "remove") :
          /\ last.log[i].res = "APIError"
          /\ \E j \in Calls(last.log, "stop") : j < i /\ last.log[j].res = "ok"
\* the containers.run calls of the trace that made a container
Creating(i) ==
    /\ trace[i].call = "containers.run"
    /\ trace[i].res \in {"ok", "APIError after create"}

\* C40: of the createOrReuse calls that run side by side, at most one makes a
\* container of a given service name; a call whose containers.run comes after
\* the one that made the container is refused by the runtime and ends with
\* RuntimeError("Failed to create ..."), not with the container that is there
C40_OneCreatePerName ==
    /\ \A name \in CNames :
          Cardinality({i \in 1..Len(trace) : Creating(i) /\ trace[i].name = name}) <= 1
    /\ \A i, j \in 1..Len(trace) :
          (/\ i < j
           /\ Creating(i)
           /\ trace[j].call = "containers.run"
           /\ trace[j].name = trace[i].name)
          => /\ trace[j].res = "APIError"
             /\ callers[trace[j].caller].pc = "done"
             /\ callers[trace[j].caller].result = "RuntimeError"

\* C40 witness: two calls for the same accessory both saw no container and
\* both asked the runtime to run one; the first made it, the second was
\* refused
C40_Witness ==
    /\ Len(trace) >= 2
    /\ trace[1].caller # trace[2].caller
    /\ trace[1].name = trace[2].name
    /\ trace[1].res = "ok"
    /\ trace[2].res = "APIError"
    /\ \A p \in {trace[1].caller, trace[2].caller} :
          callers[p].seen = "absent" /\ callers[p].creates = 1

====
